---- MODULE Spec2Model ----
(***************************************************************************)
(* A model of the IdzeyKL tree-walking interpreter: runtime values and     *)
(* their coercions (Value), the scope chain (Environment), the evaluator   *)
(* (Interpreter) and the two command-line entry points (main).             *)
(*                                                                         *)
(* Strings are sequences of one-character strings, so that stringification *)
(* and concatenation are computed character by character.  A double is an  *)
(* IEEE 754 binary64 value (sign, significand, exponent, or an infinity or *)
(* a NaN) and every operation on doubles rounds as the hardware does; an   *)
(* int has 32 bits.  The evaluator is a family of recursive operators, one *)
(* per C++ function, that thread the interpreter state (the environment    *)
(* heap, the current-environment pointer, stdout, stderr) and return the   *)
(* C++ exception in flight, if any, as a signal.                           *)
(***************************************************************************)
EXTENDS Integers, Sequences, FiniteSets, TLC

(***************************************************************************)
(* Bounds of the model.                                                    *)
(***************************************************************************)
\* largest n of the summation programs and largest loop bound
MaxN == 4
\* evaluator steps (loop iterations and calls) after which a run is cut off
MaxSteps == 20
\* largest magnitude of the Integer operands of the arithmetic programs
MaxInt == 3

(***************************************************************************)
(* Characters and decimal formatting (std::to_string).                     *)
(***************************************************************************)
Digits == <<"0", "1", "2", "3", "4", "5", "6", "7", "8", "9">>

IsDigit(c) == \E d \in 0..9 : Digits[d + 1] = c

DigitVal(c) == CHOOSE d \in 0..9 : Digits[d + 1] = c

\* INT_MAX and INT_MIN
IntMax == 2147483647
IntMin == (-IntMax) - 1

Abs(n) == IF n < 0 THEN -n ELSE n

RECURSIVE NatToString(_)
NatToString(n) ==
  IF n < 10 THEN <<Digits[n + 1]>>
  ELSE NatToString(n \div 10) \o <<Digits[(n % 10) + 1]>>

\* std::to_string(int)
IntToString(n) ==
  IF n = IntMin THEN <<"-">> \o NatToString(IntMax \div 10) \o <<"8">>
  ELSE IF n < 0 THEN <<"-">> \o NatToString(-n)
  ELSE NatToString(n)

RECURSIVE Apply(_, _)

(***************************************************************************)
(* Natural numbers of any size, for the 53-bit significands of doubles and *)
(* the products and quotients formed from them: little-endian sequences of *)
(* limbs in 0..Base-1 whose last limb is not 0; the empty sequence is 0.   *)
(* The operations work on all limbs at once where they can: carries are    *)
(* found by looking back for the limb that generates them.                 *)
(***************************************************************************)
\* the widest limbs whose products of two, plus a carry, stay below 2^31
LimbBits == (31 - 1) \div 2
Base == 2 ^ LimbBits

Max(a, b) == IF a >= b THEN a ELSE b
Min(a, b) == IF a <= b THEN a ELSE b

PowersOf2 ==
  <<1, 2, 4, 8, 16, 32, 64, 128, 256, 512, 1024, 2048, 4096, 8192, 16384, 32768,
    65536, 131072, 262144, 524288, 1048576, 2097152, 4194304, 8388608, 16777216,
    33554432, 67108864, 134217728, 268435456, 536870912, 1073741824>>

\* 2^k for k in 0..30
Pow2(k) == PowersOf2[k + 1]

\* a without its high limbs that are 0
BigTrim(a) ==
  IF \A i \in DOMAIN a : a[i] = 0 THEN <<>>
  ELSE SubSeq(a, 1, CHOOSE i \in DOMAIN a :
                      a[i] # 0 /\ \A j \in (i + 1)..Len(a) : a[j] = 0)

\* n < 2^31 as limbs
BigOfNat(n) ==
  BigTrim(<<n % Base, (n \div Base) % Base, n \div (Base * Base)>>)

Limb(a, i) == IF i <= Len(a) THEN a[i] ELSE 0

\* the value of a, for a < 2^31
BigToNat(a) == Limb(a, 1) + Base * (Limb(a, 2) + Base * Limb(a, 3))

\* -1, 0 or 1 as a is less than, equal to or greater than b
BigCmp(a, b) ==
  IF Len(a) # Len(b) THEN (IF Len(a) < Len(b) THEN -1 ELSE 1)
  ELSE IF \A i \in DOMAIN a : a[i] = b[i] THEN 0
  ELSE IF LET i == CHOOSE i \in DOMAIN a :
                     a[i] # b[i] /\ \A j \in (i + 1)..Len(a) : a[j] = b[j]
          IN  a[i] < b[i]
       THEN -1
  ELSE 1

\* the carry into limb i of the limb sums s: some limb below i overflows and
\* every limb between it and i is full
CarryInto(s, i) ==
  \E j \in 1..(i - 1) : s[j] >= Base /\ \A k \in (j + 1)..(i - 1) : s[k] = Base - 1

\* the limbs of the limb sums s, of n limbs
Carried(s, n) ==
  BigTrim([i \in 1..(n + 1) |->
             IF i > n THEN (IF CarryInto(s, i) THEN 1 ELSE 0)
             ELSE (s[i] + (IF CarryInto(s, i) THEN 1 ELSE 0)) % Base])

BigAdd(a, b) ==
  IF a = <<>> THEN b
  ELSE IF b = <<>> THEN a
  ELSE Carried([i \in 1..Max(Len(a), Len(b)) |-> Limb(a, i) + Limb(b, i)], Max(Len(a), Len(b)))

\* the borrow from limb i of the limb differences d
BorrowFrom(d, i) ==
  \E j \in 1..(i - 1) : d[j] < 0 /\ \A k \in (j + 1)..(i - 1) : d[k] = 0

Borrowed(d) ==
  BigTrim([i \in DOMAIN d |-> (d[i] - (IF BorrowFrom(d, i) THEN 1 ELSE 0) + Base) % Base])

\* a - b for a >= b
BigSub(a, b) ==
  IF a = b THEN <<>>
  ELSE IF b = <<>> THEN a
  ELSE Borrowed([i \in DOMAIN a |-> a[i] - Limb(b, i)])

\* a * Base^n
BigShiftLimbs(a, n) == IF a = <<>> THEN a ELSE [i \in 1..n |-> 0] \o a

\* a * k for 0 <= k <= Base: the low parts of the limb products plus their
\* high parts one limb up
BigMulSmall(a, k) ==
  IF a = <<>> \/ k = 0 THEN <<>>
  ELSE IF k = 1 THEN a
  ELSE Apply("BigAdd", <<BigTrim([i \in DOMAIN a |-> (a[i] * k) % Base]),
         BigShiftLimbs(BigTrim([i \in DOMAIN a |-> (a[i] * k) \div Base]), 1)>>)

RECURSIVE BigMulBy(_, _, _, _)
\* a times the limbs i..j of b, times Base^(i-1)
BigMulBy(a, b, i, j) ==
  IF i = j THEN BigShiftLimbs(Apply("BigMulSmall", <<a, b[i]>>), i - 1)
  ELSE Apply("BigAdd", <<BigMulBy(a, b, i, (i + j) \div 2), BigMulBy(a, b, ((i + j) \div 2) + 1, j)>>)

BigMul(a, b) ==
  IF a = <<>> \/ b = <<>> THEN <<>>
  ELSE IF Len(a) >= Len(b) THEN BigMulBy(a, b, 1, Len(b))
  ELSE BigMulBy(b, a, 1, Len(a))

\* the number of bits of n < Base
BitLenNat(n) == IF n = 0 THEN 0 ELSE CHOOSE b \in 1..LimbBits : Pow2(b - 1) <= n /\ n < Pow2(b)

\* the number of bits of a
BigBitLen(a) == IF a = <<>> THEN 0 ELSE LimbBits * (Len(a) - 1) + Apply("BitLenNat", <<a[Len(a)]>>)

\* bit i of a, bit 0 being the lowest
BigBit(a, i) ==
  IF i < 0 \/ i \div LimbBits >= Len(a) THEN 0
  ELSE (a[(i \div LimbBits) + 1] \div Pow2(i % LimbBits)) % 2

BigIsOdd(a) == a # <<>> /\ a[1] % 2 = 1

\* a * 2^k
BigShl(a, k) ==
  IF a = <<>> \/ k = 0 THEN a
  ELSE BigShiftLimbs(Apply("BigMulSmall", <<a, Pow2(k % LimbBits)>>), k \div LimbBits)

\* a \div 2^j for j below LimbBits
BigShrBits(a, j) ==
  BigTrim([i \in DOMAIN a |->
             (a[i] \div Pow2(j)) + (Limb(a, i + 1) % Pow2(j)) * Pow2(LimbBits - j)])

\* a \div 2^k
BigShr(a, k) ==
  IF k \div LimbBits >= Len(a) THEN <<>>
  ELSE BigShrBits(SubSeq(a, (k \div LimbBits) + 1, Len(a)), k % LimbBits)

\* the k lowest bits of a are 0
BigLowZero(a, k) ==
  /\ \A i \in 1..Min(k \div LimbBits, Len(a)) : a[i] = 0
  /\ k \div LimbBits < Len(a) => a[(k \div LimbBits) + 1] % Pow2(k % LimbBits) = 0

\* a modulo 2^k
BigLowBits(a, k) ==
  BigTrim([i \in 1..Min(Len(a), (k \div LimbBits) + 1) |->
             IF i <= k \div LimbBits THEN a[i] ELSE a[i] % Pow2(k % LimbBits)])

\* the number of 0 bits below the lowest 1 bit of n, 0 < n < Base
TrailingZerosNat(n) ==
  CHOOSE z \in 0..(LimbBits - 1) : n % Pow2(z) = 0 /\ n % Pow2(z + 1) # 0

\* the number of 0 bits below the lowest 1 bit of a # 0
BigTrailingZeros(a) ==
  LET i == CHOOSE i \in DOMAIN a : a[i] # 0 /\ \A j \in 1..(i - 1) : a[j] = 0
  IN  LimbBits * (i - 1) + Apply("TrailingZerosNat", <<a[i]>>)

\* the quotient limb of cur by d, for cur < d * Base and a d whose high limb
\* is at least Base / 2: the estimate from the high limbs is at most 2 above
QuotientLimb(cur, d) ==
  LET est == IF Len(cur) < Len(d) THEN 0
             ELSE Min(Base - 1,
                      (Limb(cur, Len(d) + 1) * Base + cur[Len(d)]) \div d[Len(d)])
  IN  IF Apply("BigCmp", <<Apply("BigMulSmall", <<d, est>>), cur>>) <= 0 THEN est
      ELSE IF Apply("BigCmp", <<Apply("BigMulSmall", <<d, est - 1>>), cur>>) <= 0 THEN est - 1
      ELSE est - 2

RECURSIVE LongDivision(_, _, _, _)
\* the quotient limbs i..1, the highest first, and the remainder of n by d,
\* rem being the remainder of the limbs of n above i
LongDivision(n, d, i, rem) ==
  IF i = 0 THEN [q |-> <<>>, r |-> rem]
  ELSE LET cur == BigTrim(<<n[i]>> \o rem)
           ql == Apply("QuotientLimb", <<cur, d>>)
           low == LongDivision(n, d, i - 1, Apply("BigSub", <<cur, Apply("BigMulSmall", <<d, ql>>)>>))
       IN  [q |-> <<ql>> \o low.q, r |-> low.r]

Reverse(s) == [i \in 1..Len(s) |-> s[Len(s) + 1 - i]]

\* n and d shifted left by s bits, which makes the high limb of d at least
\* Base / 2
ShiftedDivision(n, d, s) ==
  LET ns == Apply("BigShl", <<n, s>>)
      count == Max(Len(ns) - Len(d) + 1, 0)
      nd == LongDivision(ns, Apply("BigShl", <<d, s>>), count, SubSeq(ns, count + 1, Len(ns)))
  IN  [q |-> BigTrim(Reverse(nd.q)), r |-> Apply("BigShr", <<nd.r, s>>)]

\* quotient and remainder of n by d # 0
BigDivMod(n, d) ==
  IF Apply("BigCmp", <<n, d>>) < 0 THEN [q |-> <<>>, r |-> n]
  ELSE ShiftedDivision(n, d, LimbBits - Apply("BitLenNat", <<d[Len(d)]>>))

\* a / 2^k rounded to an integer, ties to even; sticky tells that a stands
\* for a value slightly above a
BigRoundShr(a, k, sticky) ==
  IF k <= 0 THEN a
  ELSE IF BigBit(a, k - 1) = 1
          /\ (sticky \/ ~BigLowZero(a, k - 1) \/ BigIsOdd(Apply("BigShr", <<a, k>>)))
       THEN Apply("BigAdd", <<Apply("BigShr", <<a, k>>), <<1>>>>)
  ELSE Apply("BigShr", <<a, k>>)

RECURSIVE BigPow(_, _)
\* x^k
BigPow(x, k) ==
  IF k = 0 THEN <<1>>
  ELSE LET h == BigPow(x, k \div 2)
       IN  IF k % 2 = 0 THEN Apply("BigMul", <<h, h>>) ELSE Apply("BigMul", <<x, Apply("BigMul", <<h, h>>)>>)

BigPow10(k) == BigPow(<<10>>, k)

Pad(s, n) == [k \in 1..(n - Len(s)) |-> "0"] \o s

RECURSIVE BigToDecimalWithin(_, _)
\* the decimal digits of a < 10^(2k), k a power of 2
BigToDecimalWithin(a, k) ==
  IF Len(a) <= 2 THEN NatToString(Apply("BigToNat", <<a>>))
  ELSE IF Apply("BigCmp", <<a, Apply("BigPow10", <<k>>)>>) < 0 THEN BigToDecimalWithin(a, k \div 2)
  ELSE LET qr == Apply("BigDivMod", <<a, Apply("BigPow10", <<k>>)>>)
       IN  BigToDecimalWithin(qr.q, k \div 2) \o Pad(BigToDecimalWithin(qr.r, k \div 2), k)

RECURSIVE DecimalSpan(_, _)
\* the least power of 2 from k on with a < 10^(2k)
DecimalSpan(a, k) == IF 6 * k >= Apply("BigBitLen", <<a>>) THEN k ELSE DecimalSpan(a, 2 * k)

\* the decimal digits of a
BigToDecimal(a) == BigToDecimalWithin(a, DecimalSpan(a, 4))

RECURSIVE BigOfDigits(_, _, _)
\* the value of the decimal digits s[i..j-1]
BigOfDigits(s, i, j) ==
  IF j - i <= 0 THEN <<>>
  ELSE IF j - i = 1 THEN BigOfNat(DigitVal(s[i]))
  ELSE Apply("BigAdd", <<Apply("BigMul", <<BigOfDigits(s, i, i + ((j - i) \div 2)),
                     Apply("BigPow10", <<(j - i) - ((j - i) \div 2)>>)>>),
              BigOfDigits(s, i + ((j - i) \div 2), j)>>)

(***************************************************************************)
(* double: IEEE 754 binary64 with round to nearest, ties to even.  A       *)
(* finite double of magnitude m * 2^e is the record of its sign, of m (odd,*)
(* below 2^53) and of e; zero has m = 0 and e = 0.  Every operation        *)
(* computes the exact result and rounds it once, as the hardware does.     *)
(***************************************************************************)
Finite(neg, m, e) == [fp |-> "finite", neg |-> neg, m |-> m, e |-> e]
Infinity(neg) == [fp |-> "inf", neg |-> neg, m |-> <<>>, e |-> 0]
NaN(neg) == [fp |-> "nan", neg |-> neg, m |-> <<>>, e |-> 0]

\* a zero of the given sign
SignedZero(neg) == Finite(neg, <<>>, 0)

\* the double m * 2^e for m below 2^53: infinity from 2^1024 on
Normal(neg, m, e) ==
  IF m = <<>> THEN SignedZero(neg)
  ELSE IF Apply("BigBitLen", <<m>>) + e > 1024 THEN Infinity(neg)
  ELSE LET z == BigTrailingZeros(m) IN Finite(neg, Apply("BigShr", <<m, z>>), e + z)

\* the double nearest to m * 2^e, or to a value slightly above it when
\* sticky: 53 bits are kept, fewer below 2^-1022 (subnormal numbers)
RoundToDouble(neg, m, e, sticky) ==
  IF m = <<>> THEN SignedZero(neg) ELSE
  LET drop == Max(Apply("BigBitLen", <<m>>) - 53, (-1074) - e)
  IN  Apply("Normal", <<neg, Apply("BigRoundShr", <<m, drop, sticky>>), e + Max(0, drop)>>)

\* the double nearest to (n / d) * 2^e for n # 0 and d # 0, the quotient
\* taken to at least 55 bits of n shifted left by s
RoundQuotientShifted(neg, n, d, e, s) ==
  LET qr == Apply("BigDivMod", <<Apply("BigShl", <<n, s>>), d>>)
  IN  Apply("RoundToDouble", <<neg, qr.q, e - s, qr.r # <<>>>>)

RoundQuotient(neg, n, d, e) ==
  IF d = <<1>> THEN Apply("RoundToDouble", <<neg, n, e, FALSE>>)
  ELSE RoundQuotientShifted(neg, n, d, e, Max(0, 55 + Apply("BigBitLen", <<d>>) - Apply("BigBitLen", <<n>>)))

\* static_cast<double>(int)
DblOfInt(n) ==
  IF n = 0 THEN SignedZero(FALSE)
  ELSE IF n = IntMin THEN Finite(TRUE, <<1>>, 31)
  ELSE LET z == CHOOSE z \in 0..30 : Abs(n) % Pow2(z) = 0 /\ (Abs(n) \div Pow2(z)) % 2 = 1
       IN  Finite(n < 0, BigOfNat(Abs(n) \div Pow2(z)), z)

DIsZero(a) == a.fp = "finite" /\ a.m = <<>>

\* the position above the highest bit of a finite a # 0
Top(a) == a.e + Apply("BigBitLen", <<a.m>>)

SignNeg(a) == a.neg

DNeg(a) == [a EXCEPT !.neg = ~@]

\* -1, 0 or 1 as |a| is less than, equal to or greater than |b|; no NaN
MagCmp(a, b) ==
  IF a.fp = "inf" \/ b.fp = "inf"
    THEN (IF a.fp = b.fp THEN 0 ELSE IF a.fp = "inf" THEN 1 ELSE -1)
  ELSE IF a.m = <<>> \/ b.m = <<>>
    THEN (IF a.m = b.m THEN 0 ELSE IF a.m = <<>> THEN -1 ELSE 1)
  ELSE IF Top(a) # Top(b) THEN (IF Top(a) < Top(b) THEN -1 ELSE 1)
  ELSE IF a.e >= b.e THEN Apply("BigCmp", <<Apply("BigShl", <<a.m, a.e - b.e>>), b.m>>)
  ELSE Apply("BigCmp", <<a.m, Apply("BigShl", <<b.m, b.e - a.e>>)>>)

\* -1, 0 or 1 as a is negative, zero or positive
Sgn(a) == IF DIsZero(a) THEN 0 ELSE IF a.neg THEN -1 ELSE 1

\* -1, 0 or 1 as a is less than, equal to or greater than b; no NaN
DCmp(a, b) ==
  IF Sgn(a) # Sgn(b) THEN (IF Sgn(a) < Sgn(b) THEN -1 ELSE 1)
  ELSE Sgn(a) * MagCmp(a, b)

\* the comparisons of doubles: false when an operand is NaN
DEq(a, b) == a.fp # "nan" /\ b.fp # "nan" /\ Apply("DCmp", <<a, b>>) = 0
DLt(a, b) == a.fp # "nan" /\ b.fp # "nan" /\ Apply("DCmp", <<a, b>>) < 0
DLe(a, b) == a.fp # "nan" /\ b.fp # "nan" /\ Apply("DCmp", <<a, b>>) <= 0

\* big + small for finite operands more than 60 bits apart: big widened to
\* 55 bits, with small as what lies just above or just below it
FarSum(big, small) ==
  IF big.neg = small.neg
    THEN Apply("RoundToDouble", <<big.neg, Apply("BigShl", <<big.m, 55 - Apply("BigBitLen", <<big.m>>)>>),
                       big.e - (55 - Apply("BigBitLen", <<big.m>>)), TRUE>>)
  ELSE Apply("RoundToDouble", <<big.neg, Apply("BigSub", <<Apply("BigShl", <<big.m, 55 - Apply("BigBitLen", <<big.m>>)>>), <<1>>>>),
                     big.e - (55 - Apply("BigBitLen", <<big.m>>)), TRUE>>)

\* the sum of the integers am and bm of signs aneg and bneg, times 2^e
AlignedSum(aneg, am, bneg, bm, e) ==
  IF aneg = bneg THEN Apply("RoundToDouble", <<aneg, Apply("BigAdd", <<am, bm>>), e, FALSE>>)
  ELSE IF Apply("BigCmp", <<am, bm>>) = 0 THEN SignedZero(FALSE)
  ELSE IF Apply("BigCmp", <<am, bm>>) > 0 THEN Apply("RoundToDouble", <<aneg, Apply("BigSub", <<am, bm>>), e, FALSE>>)
  ELSE Apply("RoundToDouble", <<bneg, Apply("BigSub", <<bm, am>>), e, FALSE>>)

\* a + b on doubles: (-0) + (-0) is -0, every other zero sum is +0.  The sum
\* of two NaNs is the second one: the build adds the left operand to the right
DAdd(a, b) ==
  IF b.fp = "nan" THEN b
  ELSE IF a.fp = "nan" THEN a
  ELSE IF a.fp = "inf" THEN (IF b.fp = "inf" /\ a.neg # b.neg THEN NaN(TRUE) ELSE a)
  ELSE IF b.fp = "inf" THEN b
  ELSE IF a.m = <<>> /\ b.m = <<>> THEN SignedZero(a.neg /\ b.neg)
  ELSE IF a.m = <<>> THEN b
  ELSE IF b.m = <<>> THEN a
  ELSE IF Top(a) - Top(b) > 60 THEN Apply("FarSum", <<a, b>>)
  ELSE IF Top(b) - Top(a) > 60 THEN Apply("FarSum", <<b, a>>)
  ELSE AlignedSum(a.neg, Apply("BigShl", <<a.m, a.e - Min(a.e, b.e)>>),
                  b.neg, Apply("BigShl", <<b.m, b.e - Min(a.e, b.e)>>), Min(a.e, b.e))

\* a * b on doubles; the product of two NaNs is the second one, as for the sum
DMul(a, b) ==
  IF b.fp = "nan" THEN b
  ELSE IF a.fp = "nan" THEN a
  ELSE IF a.fp = "inf" \/ b.fp = "inf"
    THEN (IF DIsZero(a) \/ DIsZero(b) THEN NaN(TRUE) ELSE Infinity(a.neg # b.neg))
  ELSE IF a.m = <<>> \/ b.m = <<>> THEN SignedZero(a.neg # b.neg)
  ELSE Apply("RoundToDouble", <<a.neg # b.neg, Apply("BigMul", <<a.m, b.m>>), a.e + b.e, FALSE>>)

\* a - b on doubles: a NaN operand is the result as it is, the first of two
DSub(a, b) ==
  IF a.fp = "nan" THEN a
  ELSE IF b.fp = "nan" THEN b
  ELSE Apply("DAdd", <<a, DNeg(b)>>)

\* a / b on doubles; the quotient of two NaNs is the first one
DDiv(a, b) ==
  IF a.fp = "nan" THEN a
  ELSE IF b.fp = "nan" THEN b
  ELSE IF a.fp = "inf" THEN (IF b.fp = "inf" THEN NaN(TRUE) ELSE Infinity(a.neg # b.neg))
  ELSE IF b.fp = "inf" THEN SignedZero(a.neg # b.neg)
  ELSE IF b.m = <<>> THEN (IF a.m = <<>> THEN NaN(TRUE) ELSE Infinity(a.neg # b.neg))
  ELSE IF a.m = <<>> THEN SignedZero(a.neg # b.neg)
  ELSE RoundQuotient(a.neg # b.neg, a.m, b.m, a.e - b.e)

\* the double nearest to n / d for integers n and d > 0
Dbl(n, d) == Apply("DDiv", <<DblOfInt(n), DblOfInt(d)>>)

\* static_cast<int>(double): truncation toward zero; the conversion of a
\* NaN, of an infinity and of a value outside the range of int is undefined
\* and yields INT_MIN, the result of the cvttsd2si instruction
DTrunc(a) ==
  IF a.fp # "finite" THEN IntMin
  ELSE IF a.m = <<>> THEN 0
  ELSE IF Top(a) > 31 THEN IntMin
  ELSE IF Top(a) <= 0 THEN 0
  ELSE IF a.e >= 0 THEN (IF a.neg THEN -1 ELSE 1) * Apply("BigToNat", <<Apply("BigShl", <<a.m, a.e>>)>>)
  ELSE (IF a.neg THEN -1 ELSE 1) * Apply("BigToNat", <<Apply("BigShr", <<a.m, -a.e>>)>>)

\* result == static_cast<int>(result)
DIsIntegral(a) ==
  /\ a.fp = "finite"
  /\ \/ a.m = <<>>
     \/ a.e >= 0 /\ Top(a) <= 31
     \/ a.neg /\ a.m = <<1>> /\ a.e = 31

\* x * x modulo y
SquareMod(x, y) == Apply("BigDivMod", <<Apply("BigMul", <<x, x>>), y>>).r

RECURSIVE PowMod2(_, _)
\* 2^k modulo y
PowMod2(k, y) ==
  IF k < LimbBits THEN Apply("BigDivMod", <<<<Pow2(k)>>, y>>).r
  ELSE LET sq == SquareMod(PowMod2(k \div 2, y), y)
       IN  IF k % 2 = 0 THEN sq ELSE Apply("BigDivMod", <<Apply("BigMulSmall", <<sq, 2>>), y>>).r

\* fmod(a, b): the remainder of a by b with the sign of a, which is exact
DFmod(a, b) ==
  IF a.fp = "nan" THEN a
  ELSE IF b.fp = "nan" THEN b
  ELSE IF a.fp = "inf" \/ DIsZero(b) THEN NaN(TRUE)
  ELSE IF b.fp = "inf" \/ a.m = <<>> THEN a
  ELSE IF a.e >= b.e
    THEN Apply("Normal", <<a.neg, Apply("BigDivMod", <<Apply("BigMul", <<a.m, PowMod2(a.e - b.e, b.m)>>), b.m>>).r, b.e>>)
  ELSE IF (b.e - a.e) + Apply("BigBitLen", <<b.m>>) > Apply("BigBitLen", <<a.m>>) THEN a
  ELSE Apply("Normal", <<a.neg, Apply("BigDivMod", <<a.m, Apply("BigShl", <<b.m, b.e - a.e>>)>>).r, a.e>>)

\* the digits of v millionths
FixedToString(digits) ==
  LET s == Pad(digits, 7)
  IN  SubSeq(s, 1, Len(s) - 6) \o <<".">> \o SubSeq(s, Len(s) - 5, Len(s))

\* std::to_string(double): "%f", six decimals, round half to even
DblToString(a) ==
  (IF a.neg THEN <<"-">> ELSE <<>>)
    \o (IF a.fp = "inf" THEN <<"i", "n", "f">>
        ELSE IF a.fp = "nan" THEN <<"n", "a", "n">>
        ELSE IF a.e >= 0
          THEN Apply("FixedToString", <<Apply("BigToDecimal", <<Apply("BigShl", <<Apply("BigMul", <<a.m, BigOfNat(1000000)>>), a.e>>)>>)>>)
        ELSE Apply("FixedToString", <<Apply("BigToDecimal", <<
               Apply("BigRoundShr", <<Apply("BigMul", <<a.m, BigOfNat(1000000)>>), -a.e, FALSE>>)>>)>>))

(***************************************************************************)
(* int: 32 bits, two's complement.  Signed overflow is undefined in C++;   *)
(* the build computes +, - and * with the machine instructions, which keep *)
(* the low 32 bits of the result.                                          *)
(***************************************************************************)
\* a + b
IntAdd(a, b) ==
  IF b > 0 /\ a > IntMax - b THEN ((a - IntMax) - 1) + ((b - IntMax) - 1)
  ELSE IF b < 0 /\ a < IntMin - b THEN ((a + IntMax) + 1) + ((b + IntMax) + 1)
  ELSE a + b

\* a - b
IntSub(a, b) ==
  IF b = IntMin THEN (IF a >= 0 THEN a + IntMin ELSE (a + IntMax) + 1)
  ELSE IntAdd(a, -b)

\* |n| as limbs
Magnitude(n) == IF n = IntMin THEN <<0, 0, 2>> ELSE BigOfNat(Abs(n))

\* the int whose 32 bits are those of low, or of -low when neg
Int32(neg, low) ==
  IF low = <<>> THEN 0
  ELSE IF low = <<0, 0, 2>> THEN IntMin
  ELSE IF Apply("BigCmp", <<low, <<0, 0, 2>>>>) < 0 THEN (IF neg THEN -Apply("BigToNat", <<low>>) ELSE Apply("BigToNat", <<low>>))
  ELSE IF neg THEN Apply("BigToNat", <<Apply("BigSub", <<<<0, 0, 4>>, low>>)>>)
  ELSE -Apply("BigToNat", <<Apply("BigSub", <<<<0, 0, 4>>, low>>)>>)

\* a * b
IntMul(a, b) ==
  IF -Base < a /\ a < Base /\ -Base < b /\ b < Base THEN a * b
  ELSE Int32((a < 0) # (b < 0), BigLowBits(Apply("BigMul", <<Magnitude(a), Magnitude(b)>>), 32))

(***************************************************************************)
(* Value: the tagged union of interpreter.hpp.                             *)
(***************************************************************************)
NullValue == [type |-> "NULL_VALUE"]
NumberValue(d) == [type |-> "NUMBER", number_ |-> d]
IntegerValue(n) == [type |-> "INTEGER", integer_ |-> n]
StringValue(s) == [type |-> "STRING", string_ |-> s]
BooleanValue(b) == [type |-> "BOOLEAN", boolean_ |-> b]
ArrayValue(a) == [type |-> "ARRAY", array_ |-> a]

isNull(v) == v.type = "NULL_VALUE"
isNumber(v) == v.type = "NUMBER" \/ v.type = "INTEGER"
isInteger(v) == v.type = "INTEGER"
isDouble(v) == v.type = "NUMBER"
isString(v) == v.type = "STRING"
isBoolean(v) == v.type = "BOOLEAN"
isArray(v) == v.type = "ARRAY"
isFunction(v) == v.type = "FUNCTION"

\* Value::setFunction on a fresh Value
FunctionValue(name, params, body) ==
  [type |-> "FUNCTION", functionName_ |-> name, parameters_ |-> params, body_ |-> body]

(***************************************************************************)
(* Character codes, for std::string comparison and isspace.                *)
(***************************************************************************)
\* the printable ASCII characters in code order, codes 32..126; the grave
\* accent (96) occurs in no string of the model and its place holds a name
Ascii ==
  <<
  " ", "!", "\"", "#", "$", "%", "&", "'", "(", ")", "*", "+",
  ",", "-", ".", "/", "0", "1", "2", "3", "4", "5", "6", "7",
  "8", "9", ":", ";", "<", "=", ">", "?", "@", "A", "B", "C",
  "D", "E", "F", "G", "H", "I", "J", "K", "L", "M", "N", "O",
  "P", "Q", "R", "S", "T", "U", "V", "W", "X", "Y", "Z", "[",
  "\\", "]", "^", "_", "grave", "a", "b", "c", "d", "e", "f", "g",
  "h", "i", "j", "k", "l", "m", "n", "o", "p", "q", "r", "s",
  "t", "u", "v", "w", "x", "y", "z", "{", "|", "}", "~"
  >>

CharCode(c) ==
  IF c = "\t" THEN 9
  ELSE IF c = "\n" THEN 10
  ELSE IF c = "" THEN 11
  ELSE IF c = "\f" THEN 12
  ELSE IF c = "\r" THEN 13
  ELSE 31 + (CHOOSE k \in 1..Len(Ascii) : Ascii[k] = c)

\* std::string operator< : lexicographic on character codes
RECURSIVE StringLess(_, _)
StringLess(a, b) ==
  IF b = <<>> THEN FALSE
  ELSE IF a = <<>> THEN TRUE
  ELSE IF Head(a) # Head(b) THEN CharCode(Head(a)) < CharCode(Head(b))
  ELSE StringLess(Tail(a), Tail(b))

(***************************************************************************)
(* std::stoi and std::stod: strtol in base 10 and strtod of the C library, *)
(* with the errors the C++ wrappers turn into exceptions.                  *)
(***************************************************************************)
\* the characters isspace accepts in the "C" locale
Space == {" ", "\t", "\n", "", "\f", "\r"}

DecimalDigits == {Digits[k] : k \in 1..10}

HexLetters == <<"a", "b", "c", "d", "e", "f">>
HexCapitals == <<"A", "B", "C", "D", "E", "F">>

HexDigits == DecimalDigits \cup {HexLetters[k] : k \in 1..6} \cup {HexCapitals[k] : k \in 1..6}

HexVal(c) ==
  IF c \in DecimalDigits THEN DigitVal(c)
  ELSE 9 + (CHOOSE k \in 1..6 : HexLetters[k] = c \/ HexCapitals[k] = c)

\* the first position from i on whose character is not in chars
SpanEnd(s, i, chars) ==
  IF \A k \in i..Len(s) : s[k] \in chars THEN Max(i, Len(s) + 1)
  ELSE CHOOSE j \in i..Len(s) : s[j] \notin chars /\ \A k \in i..(j - 1) : s[k] \in chars

SkipSpaces(s, i) == Apply("SpanEnd", <<s, i, Space>>)

DigitsEnd(s, i) == Apply("SpanEnd", <<s, i, DecimalDigits>>)

\* the position after the character at i when it is one of chars
SkipChar(s, i, chars) == IF i <= Len(s) /\ s[i] \in chars THEN i + 1 ELSE i

\* the character at i is one of chars
At(s, i, chars) == i <= Len(s) /\ s[i] \in chars

RECURSIVE BigOfHexDigits(_, _, _)
\* the value of the hexadecimal digits s[i..j-1]
BigOfHexDigits(s, i, j) ==
  IF j - i <= 0 THEN <<>>
  ELSE IF j - i = 1 THEN BigOfNat(HexVal(s[i]))
  ELSE Apply("BigAdd", <<Apply("BigShl", <<BigOfHexDigits(s, i, i + ((j - i) \div 2)),
                     4 * ((j - i) - ((j - i) \div 2))>>),
              BigOfHexDigits(s, i + ((j - i) \div 2), j)>>)

\* 2^31 as limbs
Big2To31 == <<0, 0, 2>>

\* strtol on the digits s[i1..i2-1] after a sign, as std::stoi checks it:
\* no digit is invalid_argument, a value outside int is out_of_range
StoiDigits(s, neg, i1, i2, big) ==
  [ok |-> i2 > i1 /\ (Apply("BigCmp", <<big, Big2To31>>) < 0 \/ (neg /\ big = Big2To31)),
   value |-> IF Apply("BigCmp", <<big, Big2To31>>) >= 0 THEN IntMin
             ELSE IF neg THEN -Apply("BigToNat", <<big>>) ELSE Apply("BigToNat", <<big>>),
   pos |-> i2 - 1]

StoiSigned(s, i0, i1) ==
  StoiDigits(s, At(s, i0, {"-"}), i1, Apply("DigitsEnd", <<s, i1>>), BigOfDigits(s, i1, Apply("DigitsEnd", <<s, i1>>)))

\* std::stoi(s, &pos): ok tells that it returned, with value and pos
stoi(s) == StoiSigned(s, SkipSpaces(s, 1), SkipChar(s, SkipSpaces(s, 1), {"-", "+"}))

\* largest magnitude kept of an exponent: every larger one has the same result
MaxExponent == 1000000

\* the exponent written at i: the letter, a sign and the digits s[x1..x2-1],
\* or 0 when the digits are missing
ExponentDigits(s, i, letters, x1, x2, big) ==
  IF ~At(s, i, letters) \/ x2 = x1 THEN 0
  ELSE (IF At(s, i + 1, {"-"}) THEN -1 ELSE 1)
         * (IF Len(big) > 2 THEN MaxExponent ELSE Min(MaxExponent, Apply("BigToNat", <<big>>)))

Exponent(s, i, letters) ==
  ExponentDigits(s, i, letters, SkipChar(s, i + 1, {"-", "+"}),
                 Apply("DigitsEnd", <<s, SkipChar(s, i + 1, {"-", "+"})>>),
                 BigOfDigits(s, SkipChar(s, i + 1, {"-", "+"}),
                             Apply("DigitsEnd", <<s, SkipChar(s, i + 1, {"-", "+"})>>)))

\* the 53-bit rounding of m * 2^e with no bound on the exponent is below
\* 2^-1022
Tiny(m, e, sticky) ==
  Apply("BigBitLen", <<Apply("BigRoundShr", <<m, Apply("BigBitLen", <<m>>) - 53, sticky>>)>>) + Max(0, Apply("BigBitLen", <<m>>) - 53) + e
    <= -1022

\* what strtod returns for m * 2^e, slightly more when sticky: the nearest
\* double, with ERANGE on overflow and on a tiny result that is not exact
Rounded(neg, m, e, sticky, d) ==
  [found |-> TRUE, value |-> d,
   erange |-> d.fp = "inf"
               \/ (Tiny(m, e, sticky) /\ (sticky \/ d # Apply("Normal", <<neg, m, e>>)))]

\* strtod's result for (n / d) * 2^e, the quotient taken to at least 55 bits
\* of n shifted left by sh
RoundedQuotient(neg, qr, e, sh) ==
  Rounded(neg, qr.q, e - sh, qr.r # <<>>, Apply("RoundToDouble", <<neg, qr.q, e - sh, qr.r # <<>>>>))

\* strtod's result for m * 10^e10 * 2^e2
Scaled(neg, m, e10, e2) ==
  IF m = <<>> THEN [found |-> TRUE, value |-> SignedZero(neg), erange |-> FALSE]
  ELSE IF e10 >= 0 /\ (Apply("BigBitLen", <<m>>) - 1) + 3 * e10 + e2 > 1024
    THEN [found |-> TRUE, value |-> Infinity(neg), erange |-> TRUE]
  ELSE IF e10 < 0 /\ Apply("BigBitLen", <<m>>) + 3 * e10 + e2 < -1080
    THEN [found |-> TRUE, value |-> SignedZero(neg), erange |-> TRUE]
  ELSE IF e10 >= 0
    THEN Rounded(neg, Apply("BigMul", <<m, Apply("BigPow10", <<e10>>)>>), e2, FALSE,
                 Apply("RoundToDouble", <<neg, Apply("BigMul", <<m, Apply("BigPow10", <<e10>>)>>), e2, FALSE>>))
  ELSE LET d == Apply("BigPow10", <<-e10>>)
           sh == Max(0, 55 + Apply("BigBitLen", <<d>>) - Apply("BigBitLen", <<m>>))
       IN  RoundedQuotient(neg, Apply("BigDivMod", <<Apply("BigShl", <<m, sh>>), d>>), e2, sh)

\* a decimal number from i1 on: digits s[i1..i2-1], a point and the digits
\* s[f1..f2-1], an exponent; one digit at least
DecimalFloat(s, neg, i1, i2, f1, f2) ==
  IF (i2 - i1) + (f2 - f1) = 0 THEN [found |-> FALSE, value |-> SignedZero(FALSE), erange |-> FALSE]
  ELSE Apply("Scaled", <<neg, BigOfDigits(SubSeq(s, i1, i2 - 1) \o SubSeq(s, f1, f2 - 1),
                               1, (i2 - i1) + (f2 - f1) + 1),
              Apply("Exponent", <<s, f2, {"e", "E"}>>) - (f2 - f1), 0>>)

\* a hexadecimal number after 0x: digits s[h1..h2-1], a point and the digits
\* s[g1..g2-1], a binary exponent
HexFloat(s, neg, h1, h2, g1, g2) ==
  Apply("Scaled", <<neg, BigOfHexDigits(SubSeq(s, h1, h2 - 1) \o SubSeq(s, g1, g2 - 1),
                             1, (h2 - h1) + (g2 - g1) + 1),
         0, Apply("Exponent", <<s, g2, {"p", "P"}>>) - 4 * (g2 - g1)>>)

\* 0x begins a hexadecimal number at i when a hexadecimal digit follows it,
\* straight away or after a point
IsHexFloat(s, i) ==
  /\ At(s, i, {"0"})
  /\ At(s, i + 1, {"x", "X"})
  /\ At(s, i + 2, HexDigits) \/ (At(s, i + 2, {"."}) /\ At(s, i + 3, HexDigits))

\* s continues at i with the letters of word, in either case
Spells(s, i, word, capitals) ==
  \A k \in 1..Len(word) : At(s, i + k - 1, {word[k], capitals[k]})

\* the number from i1 on, after white space and sign
StrtodAt(s, neg, i1) ==
  IF IsHexFloat(s, i1)
    THEN HexFloat(s, neg, i1 + 2, Apply("SpanEnd", <<s, i1 + 2, HexDigits>>),
                  SkipChar(s, Apply("SpanEnd", <<s, i1 + 2, HexDigits>>), {"."}),
                  IF At(s, Apply("SpanEnd", <<s, i1 + 2, HexDigits>>), {"."})
                    THEN Apply("SpanEnd", <<s, Apply("SpanEnd", <<s, i1 + 2, HexDigits>>) + 1, HexDigits>>)
                  ELSE Apply("SpanEnd", <<s, i1 + 2, HexDigits>>))
  ELSE IF Spells(s, i1, <<"i", "n", "f">>, <<"I", "N", "F">>)
    THEN [found |-> TRUE, value |-> Infinity(neg), erange |-> FALSE]
  ELSE IF Spells(s, i1, <<"n", "a", "n">>, <<"N", "A", "N">>)
    THEN [found |-> TRUE, value |-> NaN(neg), erange |-> FALSE]
  ELSE DecimalFloat(s, neg, i1, Apply("DigitsEnd", <<s, i1>>),
                    SkipChar(s, Apply("DigitsEnd", <<s, i1>>), {"."}),
                    IF At(s, Apply("DigitsEnd", <<s, i1>>), {"."})
                      THEN Apply("DigitsEnd", <<s, Apply("DigitsEnd", <<s, i1>>) + 1>>)
                    ELSE Apply("DigitsEnd", <<s, i1>>))

\* strtod(s): whether a number was found, its value and whether errno is ERANGE
strtod(s) ==
  StrtodAt(s, At(s, SkipSpaces(s, 1), {"-"}), SkipChar(s, SkipSpaces(s, 1), {"-", "+"}))

\* std::stod(s) throws invalid_argument or out_of_range
StodThrows(s) == ~Apply("strtod", <<s>>).found \/ Apply("strtod", <<s>>).erange

\* asNumber() of a String: stoi, then stod when stoi stopped early, 0.0 when
\* either throws
StringToNumber(s) ==
  IF ~Apply("stoi", <<s>>).ok THEN DblOfInt(0)
  ELSE IF Apply("stoi", <<s>>).pos = Len(s) THEN DblOfInt(Apply("stoi", <<s>>).value)
  ELSE IF StodThrows(s) THEN DblOfInt(0)
  ELSE Apply("strtod", <<s>>).value

(***************************************************************************)
(* Value coercions.                                                        *)
(***************************************************************************)
\* Value::asNumber
asNumber(v) ==
  IF isDouble(v) THEN v.number_
  ELSE IF isInteger(v) THEN DblOfInt(v.integer_)
  ELSE IF isString(v) THEN StringToNumber(v.string_)
  ELSE IF isBoolean(v) THEN (IF v.boolean_ THEN DblOfInt(1) ELSE DblOfInt(0))
  ELSE IF isNull(v) THEN DblOfInt(0)
  ELSE IF isArray(v) THEN DblOfInt(Len(v.array_))
  ELSE DblOfInt(0)

\* Value::asBoolean
asBoolean(v) ==
  IF isBoolean(v) THEN v.boolean_
  ELSE IF isInteger(v) THEN v.integer_ # 0
  ELSE IF isDouble(v) THEN ~DIsZero(v.number_)
  ELSE IF isString(v) THEN v.string_ # <<>>
  ELSE IF isNull(v) THEN FALSE
  ELSE IF isArray(v) THEN v.array_ # <<>>
  ELSE TRUE

Chars_null == <<"n", "u", "l", "l">>
Chars_true == <<"t", "r", "u", "e">>
Chars_false == <<"f", "a", "l", "s", "e">>
Chars_function == <<"<", "f", "u", "n", "c", "t", "i", "o", "n">>

RECURSIVE toString(_)
RECURSIVE ElementsToString(_, _)
\* the loop of Value::toString over array_, from element i on
ElementsToString(a, i) ==
  IF i > Len(a) THEN <<>>
  ELSE (IF i > 1 THEN <<",", " ">> ELSE <<>>)
       \o (IF isArray(a[i]) THEN toString(a[i])
           ELSE IF isInteger(a[i]) THEN IntToString(a[i].integer_)
           ELSE IF isDouble(a[i]) THEN Apply("DblToString", <<a[i].number_>>)
           ELSE IF isString(a[i]) THEN a[i].string_
           ELSE IF isBoolean(a[i]) THEN (IF a[i].boolean_ THEN Chars_true ELSE Chars_false)
           ELSE IF isNull(a[i]) THEN Chars_null
           ELSE Chars_function \o <<">">>)
       \o ElementsToString(a, i + 1)

\* Value::toString
toString(v) ==
  IF isNull(v) THEN Chars_null
  ELSE IF isDouble(v) THEN Apply("DblToString", <<v.number_>>)
  ELSE IF isInteger(v) THEN IntToString(v.integer_)
  ELSE IF isString(v) THEN v.string_
  ELSE IF isBoolean(v) THEN (IF v.boolean_ THEN Chars_true ELSE Chars_false)
  ELSE IF isArray(v) THEN <<"[">> \o ElementsToString(v.array_, 1) \o <<"]">>
  ELSE IF isFunction(v) THEN Chars_function \o <<" ">> \o v.functionName_ \o <<">">>
  ELSE <<"<", "n", "a", "t", "i", "v", "e", " ">> \o Tail(Chars_function) \o <<">">>

(***************************************************************************)
(* Array, property and arithmetic operations of Value.                     *)
(***************************************************************************)
\* the cap of Value::setArrayElement on an index that would grow the array
MaxArrayIndex == 1000

\* Value::getArrayElement
getArrayElement(v, index) ==
  IF isArray(v) THEN
    (IF index < 0 \/ index >= Len(v.array_) THEN NullValue ELSE v.array_[index + 1])
  ELSE IF isString(v) THEN
    (IF index = 0 THEN v
     ELSE IF index > 0 /\ index < Len(v.string_) THEN StringValue(<<v.string_[index + 1]>>)
     ELSE NullValue)
  ELSE (IF index = 0 THEN v ELSE NullValue)

\* array_.resize(n) on a shorter vector: new elements are Value()
Resize(a, n) == [k \in 1..n |-> IF k <= Len(a) THEN a[k] ELSE NullValue]

\* array_ after the type switch that opens Value::setArrayElement
PromotedArray(v) ==
  IF isString(v) THEN <<StringValue(v.string_)>>
  ELSE IF ~isArray(v) THEN <<>>
  ELSE v.array_

\* Value::setArrayElement with the cap applied to every index above it
setArrayElementCapped(v, index, value) ==
  LET a == PromotedArray(v)
  IN  IF index < 0 \/ index > MaxArrayIndex THEN ArrayValue(a)
      ELSE LET b == IF index >= Len(a) THEN Resize(a, index + 1) ELSE a
           IN  ArrayValue([b EXCEPT ![index + 1] = value])

\* Value::setArrayElement: the Value after the call
setArrayElement(v, index, value) ==
  LET a == PromotedArray(v)
  IN  IF index < 0 THEN ArrayValue(a)
      ELSE IF index >= Len(a) /\ index > MaxArrayIndex THEN ArrayValue(a)
      ELSE LET b == IF index >= Len(a) THEN Resize(a, index + 1) ELSE a
           IN  ArrayValue([b EXCEPT ![index + 1] = value])

\* Value::getProperty
getProperty(v, name) ==
  IF name = <<"l", "e", "n", "g", "t", "h">> THEN
    (IF isArray(v) THEN IntegerValue(Len(v.array_))
     ELSE IF isString(v) THEN IntegerValue(Len(v.string_))
     ELSE IntegerValue(1))
  ELSE NullValue

\* INT_MIN / -1 and INT_MIN % -1 overflow, which is undefined: the division
\* instruction of the build raises SIGFPE
DivisionTraps(a, b) == a = IntMin /\ b = -1

\* integer division and remainder of C++, for b # 0: the quotient truncates
\* toward zero
CQuot(a, b) ==
  IF b = IntMin THEN (IF a = IntMin THEN 1 ELSE 0)
  ELSE IF DivisionTraps(a, b) THEN IntMin
  ELSE IF a \div b < 0 /\ a % Abs(b) # 0 THEN (a \div b) + 1
  ELSE a \div b

CRem(a, b) == IF DivisionTraps(a, b) THEN 0 ELSE a - b * Apply("CQuot", <<a, b>>)

\* "if (result == static_cast<int>(result)) return Value(static_cast<int>(result));
\*  return Value(result);"
Demote(d) == IF DIsIntegral(d) THEN IntegerValue(Apply("DTrunc", <<d>>)) ELSE NumberValue(d)

\* Value::operator+
operatorPlus(a, b) ==
  IF isInteger(a) /\ isInteger(b) THEN IntegerValue(IntAdd(a.integer_, b.integer_))
  ELSE IF isNumber(a) /\ isNumber(b) THEN Apply("Demote", <<Apply("DAdd", <<Apply("asNumber", <<a>>), Apply("asNumber", <<b>>)>>)>>)
  ELSE IF isString(a) \/ isString(b) THEN StringValue(toString(a) \o toString(b))
  ELSE IF isArray(a) /\ isArray(b) THEN ArrayValue(a.array_ \o b.array_)
  ELSE IF isNumber(a) \/ isNumber(b) THEN Apply("Demote", <<Apply("DAdd", <<Apply("asNumber", <<a>>), Apply("asNumber", <<b>>)>>)>>)
  ELSE StringValue(toString(a) \o toString(b))

\* Value::operator-
operatorMinus(a, b) ==
  IF isInteger(a) /\ isInteger(b) THEN IntegerValue(IntSub(a.integer_, b.integer_))
  ELSE Apply("Demote", <<DSub(Apply("asNumber", <<a>>), Apply("asNumber", <<b>>))>>)

\* Value::operator* computing in double without the Integer results
operatorMultiplyDouble(a, b) == NumberValue(DMul(Apply("asNumber", <<a>>), Apply("asNumber", <<b>>)))

\* Value::operator*
operatorMultiply(a, b) ==
  IF isInteger(a) /\ isInteger(b) THEN IntegerValue(IntMul(a.integer_, b.integer_))
  ELSE Apply("Demote", <<DMul(Apply("asNumber", <<a>>), Apply("asNumber", <<b>>))>>)

\* Value::operator/
operatorDivide(a, b) ==
  IF DIsZero(Apply("asNumber", <<b>>)) THEN IntegerValue(0)
  ELSE IF isInteger(a) /\ isInteger(b) /\ CRem(a.integer_, b.integer_) = 0
       THEN IntegerValue(Apply("CQuot", <<a.integer_, b.integer_>>))
  ELSE Apply("Demote", <<Apply("DDiv", <<Apply("asNumber", <<a>>), Apply("asNumber", <<b>>)>>)>>)

\* Value::operator%
operatorModulo(a, b) ==
  IF DIsZero(Apply("asNumber", <<b>>)) THEN IntegerValue(0)
  ELSE IF isInteger(a) /\ isInteger(b) THEN IntegerValue(CRem(a.integer_, b.integer_))
  ELSE Apply("Demote", <<DFmod(Apply("asNumber", <<a>>), Apply("asNumber", <<b>>))>>)

\* Value::operator==
operatorEquals(a, b) ==
  IF isNull(a) /\ isNull(b) THEN TRUE
  ELSE IF isNumber(a) /\ isNumber(b) THEN DEq(Apply("asNumber", <<a>>), Apply("asNumber", <<b>>))
  ELSE IF isString(a) /\ isString(b) THEN a.string_ = b.string_
  ELSE IF isBoolean(a) /\ isBoolean(b) THEN a.boolean_ = b.boolean_
  ELSE IF (isNumber(a) \/ isNumber(b)) /\ (isString(a) \/ isString(b))
       THEN DEq(Apply("asNumber", <<a>>), Apply("asNumber", <<b>>))
  ELSE IF isBoolean(a) \/ isBoolean(b) THEN asBoolean(a) = asBoolean(b)
  ELSE IF isArray(a) \/ isArray(b) THEN toString(a) = toString(b)
  ELSE FALSE

\* Value::operator!=
operatorNotEquals(a, b) == ~Apply("operatorEquals", <<a, b>>)

\* Value::operator<
operatorLess(a, b) ==
  IF isNumber(a) /\ isNumber(b) THEN DLt(Apply("asNumber", <<a>>), Apply("asNumber", <<b>>))
  ELSE IF isString(a) /\ isString(b) THEN StringLess(a.string_, b.string_)
  ELSE IF (isNumber(a) \/ isNumber(b)) /\ (isString(a) \/ isString(b))
       THEN DLt(Apply("asNumber", <<a>>), Apply("asNumber", <<b>>))
  ELSE IF isBoolean(a) \/ isBoolean(b) THEN DLt(Apply("asNumber", <<a>>), Apply("asNumber", <<b>>))
  ELSE IF isArray(a) /\ isArray(b) THEN Len(a.array_) < Len(b.array_)
  ELSE StringLess(toString(a), toString(b))

\* Value::operator<=
operatorLessEq(a, b) ==
  IF isNumber(a) /\ isNumber(b) THEN DLe(Apply("asNumber", <<a>>), Apply("asNumber", <<b>>))
  ELSE Apply("operatorLess", <<a, b>>) \/ Apply("operatorEquals", <<a, b>>)

\* Value::operator>
operatorGreater(a, b) ==
  IF isNumber(a) /\ isNumber(b) THEN DLt(Apply("asNumber", <<b>>), Apply("asNumber", <<a>>))
  ELSE ~Apply("operatorLessEq", <<a, b>>)

\* Value::operator>=
operatorGreaterEq(a, b) ==
  IF isNumber(a) /\ isNumber(b) THEN DLe(Apply("asNumber", <<b>>), Apply("asNumber", <<a>>))
  ELSE ~Apply("operatorLess", <<a, b>>)

(***************************************************************************)
(* Apply calls one of the operators above by name: the operators call one  *)
(* another, and are called from the interpreter, through it.               *)
(***************************************************************************)
Apply(fn, x) ==
  CASE fn = "BigToNat" /\ Len(x) = 1 -> BigToNat(x[1])
    [] fn = "BigCmp" /\ Len(x) = 2 -> BigCmp(x[1], x[2])
    [] fn = "BigAdd" /\ Len(x) = 2 -> BigAdd(x[1], x[2])
    [] fn = "BigSub" /\ Len(x) = 2 -> BigSub(x[1], x[2])
    [] fn = "BigMulSmall" /\ Len(x) = 2 -> BigMulSmall(x[1], x[2])
    [] fn = "BigMul" /\ Len(x) = 2 -> BigMul(x[1], x[2])
    [] fn = "BitLenNat" /\ Len(x) = 1 -> BitLenNat(x[1])
    [] fn = "BigBitLen" /\ Len(x) = 1 -> BigBitLen(x[1])
    [] fn = "BigShl" /\ Len(x) = 2 -> BigShl(x[1], x[2])
    [] fn = "BigShr" /\ Len(x) = 2 -> BigShr(x[1], x[2])
    [] fn = "TrailingZerosNat" /\ Len(x) = 1 -> TrailingZerosNat(x[1])
    [] fn = "QuotientLimb" /\ Len(x) = 2 -> QuotientLimb(x[1], x[2])
    [] fn = "BigDivMod" /\ Len(x) = 2 -> BigDivMod(x[1], x[2])
    [] fn = "BigRoundShr" /\ Len(x) = 3 -> BigRoundShr(x[1], x[2], x[3])
    [] fn = "BigPow10" /\ Len(x) = 1 -> BigPow10(x[1])
    [] fn = "BigToDecimal" /\ Len(x) = 1 -> BigToDecimal(x[1])
    [] fn = "Normal" /\ Len(x) = 3 -> Normal(x[1], x[2], x[3])
    [] fn = "RoundToDouble" /\ Len(x) = 4 -> RoundToDouble(x[1], x[2], x[3], x[4])
    [] fn = "DCmp" /\ Len(x) = 2 -> DCmp(x[1], x[2])
    [] fn = "FarSum" /\ Len(x) = 2 -> FarSum(x[1], x[2])
    [] fn = "DAdd" /\ Len(x) = 2 -> DAdd(x[1], x[2])
    [] fn = "DDiv" /\ Len(x) = 2 -> DDiv(x[1], x[2])
    [] fn = "DTrunc" /\ Len(x) = 1 -> DTrunc(x[1])
    [] fn = "FixedToString" /\ Len(x) = 1 -> FixedToString(x[1])
    [] fn = "DblToString" /\ Len(x) = 1 -> DblToString(x[1])
    [] fn = "SpanEnd" /\ Len(x) = 3 -> SpanEnd(x[1], x[2], x[3])
    [] fn = "DigitsEnd" /\ Len(x) = 2 -> DigitsEnd(x[1], x[2])
    [] fn = "stoi" /\ Len(x) = 1 -> stoi(x[1])
    [] fn = "Exponent" /\ Len(x) = 3 -> Exponent(x[1], x[2], x[3])
    [] fn = "Scaled" /\ Len(x) = 4 -> Scaled(x[1], x[2], x[3], x[4])
    [] fn = "strtod" /\ Len(x) = 1 -> strtod(x[1])
    [] fn = "asNumber" /\ Len(x) = 1 -> asNumber(x[1])
    [] fn = "CQuot" /\ Len(x) = 2 -> CQuot(x[1], x[2])
    [] fn = "Demote" /\ Len(x) = 1 -> Demote(x[1])
    [] fn = "operatorPlus" /\ Len(x) = 2 -> operatorPlus(x[1], x[2])
    [] fn = "operatorMinus" /\ Len(x) = 2 -> operatorMinus(x[1], x[2])
    [] fn = "operatorMultiply" /\ Len(x) = 2 -> operatorMultiply(x[1], x[2])
    [] fn = "operatorDivide" /\ Len(x) = 2 -> operatorDivide(x[1], x[2])
    [] fn = "operatorModulo" /\ Len(x) = 2 -> operatorModulo(x[1], x[2])
    [] fn = "operatorEquals" /\ Len(x) = 2 -> operatorEquals(x[1], x[2])
    [] fn = "operatorLess" /\ Len(x) = 2 -> operatorLess(x[1], x[2])
    [] fn = "operatorLessEq" /\ Len(x) = 2 -> operatorLessEq(x[1], x[2])
    [] fn = "operatorGreater" /\ Len(x) = 2 -> operatorGreater(x[1], x[2])
    [] fn = "operatorGreaterEq" /\ Len(x) = 2 -> operatorGreaterEq(x[1], x[2])

(***************************************************************************)
(* AST nodes (parser.hpp).  A missing child (a null unique_ptr) is NoNode. *)
(***************************************************************************)
NoNode == [type |-> "NULLPTR"]

BlockStatement(stmts) == [type |-> "BLOCK", statements |-> stmts]
VariableDeclaration(id, init) ==
  [type |-> "VARIABLE_DECLARATION", identifier |-> id, initializer |-> init]
FunctionDeclaration(n, params, b) ==
  [type |-> "FUNCTION_DECLARATION", name |-> n, parameters |-> params, body |-> b]
LoopStatement(i, c, inc, b) ==
  [type |-> "LOOP", init |-> i, condition |-> c, increment |-> inc, body |-> b]
IfStatement(c, t, e) ==
  [type |-> "IF", condition |-> c, thenBranch |-> t, elseBranch |-> e]
PrintStatement(ln, a) ==
  [type |-> "PRINT", isPrintln |-> ln, args |-> a, directString |-> <<>>]
ReturnStatement(v) == [type |-> "RETURN", value |-> v]
BreakStatement == [type |-> "BREAK"]
ExpressionStatement(e) == [type |-> "EXPRESSION", expr |-> e]

BinaryExpression(o, l, r) == [type |-> "BINARY", op |-> o, left |-> l, right |-> r]
UnaryExpression(o, e) == [type |-> "UNARY", op |-> o, expr |-> e]
Identifier(n) == [type |-> "IDENTIFIER", name |-> n]
Literal(v) == [type |-> "LITERAL", value |-> v]
CallExpression(c, a) == [type |-> "CALL", callee |-> c, arguments |-> a]
ArrayExpression(e) == [type |-> "ARRAY", elements |-> e]
ArrayAccessExpression(a, i) == [type |-> "ARRAY_ACCESS", array |-> a, index |-> i]
PropertyAccessExpression(o, p) == [type |-> "PROPERTY_ACCESS", object |-> o, property |-> p]

\* TokenValue = std::variant<std::string, double, bool>
TokenString(s) == [alt |-> "string", s |-> s]
TokenDouble(d) == [alt |-> "double", d |-> d]
TokenBool(b) == [alt |-> "bool", b |-> b]

(***************************************************************************)
(* Environment: the heap of scopes.  An environment is an index into envs; *)
(* index 0 is the null enclosing_ pointer.                                 *)
(***************************************************************************)
NullEnv == 0

\* std::make_shared<Environment>(enclosing): the heap with the new scope last
NewEnvironment(envs, enclosing) ==
  Append(envs, [values_ |-> [n \in {} |-> NullValue], enclosing_ |-> enclosing])

\* Environment::define
define(envs, e, name, value) ==
  [envs EXCEPT ![e].values_ =
     [n \in (DOMAIN @) \cup {name} |-> IF n = name THEN value ELSE @[n]]]

RECURSIVE Lookup(_, _, _)
\* the scope of the chain from e that binds name, or NullEnv
Lookup(envs, e, name) ==
  IF name \in DOMAIN envs[e].values_ THEN e
  ELSE IF envs[e].enclosing_ # NullEnv THEN Lookup(envs, envs[e].enclosing_, name)
  ELSE NullEnv

\* Environment::get: the value, when the name is bound (otherwise it throws)
get(envs, e, name) == envs[Lookup(envs, e, name)].values_[name]

IsBound(envs, e, name) == Lookup(envs, e, name) # NullEnv

\* Environment::assign with arrays held by reference: every binding that held
\* the array assigned over follows the assignment
assignShared(envs, e, name, value) ==
  IF ~IsBound(envs, e, name) THEN [envs |-> envs, thrown |-> TRUE]
  ELSE
    LET old == get(envs, e, name)
    IN  [envs |->
           [k \in DOMAIN envs |->
              [envs[k] EXCEPT !.values_ =
                 [n \in DOMAIN @ |->
                    IF (k = Lookup(envs, e, name) /\ n = name)
                         \/ (isArray(old) /\ @[n] = old)
                    THEN value ELSE @[n]]]],
         thrown |-> FALSE]

RECURSIVE assignDefining(_, _, _, _)
\* Environment::assign that defines the name in the outermost scope of the
\* chain, instead of throwing, when no scope of the chain binds it
assignDefining(envs, e, name, value) ==
  IF name \in DOMAIN envs[e].values_
    THEN [envs |-> [envs EXCEPT ![e].values_[name] = value], thrown |-> FALSE]
  ELSE IF envs[e].enclosing_ # NullEnv
    THEN assignDefining(envs, envs[e].enclosing_, name, value)
  ELSE [envs |-> define(envs, e, name, value), thrown |-> FALSE]

RECURSIVE assign(_, _, _, _)
\* Environment::assign on the scope e: the heap it leaves, and whether it
\* throws RuntimeError("Undefined variable '" + name + "'")
assign(envs, e, name, value) ==
  IF name \in DOMAIN envs[e].values_
    THEN [envs |-> [envs EXCEPT ![e].values_[name] = value], thrown |-> FALSE]
  ELSE IF envs[e].enclosing_ # NullEnv THEN assign(envs, envs[e].enclosing_, name, value)
  ELSE [envs |-> envs, thrown |-> TRUE]

(***************************************************************************)
(* Interpreter state and the outcome of a C++ call: sig is "none" for a    *)
(* normal return, or the exception in flight: "Return" (val is its value), *)
(* "Break", "RuntimeError" (what is its message), "Diverge" for a run cut  *)
(* off at MaxSteps and "UB" for undefined behaviour.                       *)
(***************************************************************************)
NoWhat == [msg |-> "", arg |-> <<>>]

Ok(st, v) == [st |-> st, sig |-> "none", val |-> v, what |-> NoWhat]

Throw(st, s, v, w) == [st |-> st, sig |-> s, val |-> v, what |-> w]

RuntimeError(st, m, a) == Throw(st, "RuntimeError", NullValue, [msg |-> m, arg |-> a])

Write(st, chars) == [st EXCEPT !.out = @ \o chars]

WriteErr(st, prefix, w) == [st EXCEPT !.err = Append(@, [prefix |-> prefix, what |-> w])]

Tick(st) == [st EXCEPT !.steps = @ + 1]

\* Interpreter::isTruthy
isTruthy(v) == asBoolean(v)

(***************************************************************************)
(* Interpreter.  Every operator takes the interpreter state st and returns *)
(* an outcome whose st is the state the C++ call leaves.  The C++ functions*)
(* call one another recursively; here every such call goes through Run by  *)
(* way of the requests below, and a loop of the C++ code is an operator    *)
(* that calls itself for the passes after the first.                       *)
(***************************************************************************)
RECURSIVE Run(_, _)

\* calls of Interpreter::executeBlock, of Interpreter::evaluateExpression and
\* of Value::call
ExecBlock(statement, environment, st) ==
  Run([fn |-> "executeBlock", statement |-> statement, environment |-> environment], st)
Eval(expression, st) == Run([fn |-> "evaluateExpression", expression |-> expression], st)
Call(callee, arguments, st) ==
  Run([fn |-> "call", callee |-> callee, arguments |-> arguments], st)

\* the loops of the interpreter, each from one pass on
RECURSIVE executeStatements(_, _, _)
RECURSIVE LoopIterations(_, _)
RECURSIVE PrintArguments(_, _, _)
RECURSIVE evaluateArguments(_, _, _, _)

\* Interpreter::executeVariableDeclaration
executeVariableDeclaration(statement, st) ==
  LET r == IF statement.initializer.type = "NULLPTR" THEN Ok(st, NullValue)
           ELSE Eval(statement.initializer, st)
  IN  IF r.sig # "none" THEN r
      ELSE Ok([r.st EXCEPT !.envs =
                 define(@, r.st.environment_, statement.identifier, r.val)],
              NullValue)

\* Interpreter::executeExpressionStatement
executeExpressionStatement(statement, st) ==
  LET r == Eval(statement.expr, st)
  IN  IF r.sig # "none" THEN r ELSE Ok(r.st, NullValue)

\* Interpreter::executeReturnStatement
executeReturnStatement(statement, st) ==
  LET r == IF statement.value.type = "NULLPTR" THEN Ok(st, NullValue)
           ELSE Eval(statement.value, st)
  IN  IF r.sig # "none" THEN r
      ELSE Throw(r.st, "Return", r.val, NoWhat)

\* the for loop of executePrintStatement, from argument i on
PrintArguments(args, i, st) ==
  IF i > Len(args) THEN Ok(st, NullValue)
  ELSE LET s1 == IF i > 1 THEN Write(st, <<" ">>) ELSE st
           r == Eval(args[i], s1)
       IN  IF r.sig # "none" THEN r
           ELSE PrintArguments(args, i + 1, Write(r.st, toString(r.val)))

\* Interpreter::executePrintStatement
executePrintStatement(statement, st) ==
  IF statement.directString # <<>>
    THEN Ok(Write(st, statement.directString
                      \o (IF statement.isPrintln THEN <<"\n">> ELSE <<>>)), NullValue)
  ELSE LET r == PrintArguments(statement.args, 1, st)
       IN  IF r.sig # "none" THEN r
           ELSE IF statement.isPrintln THEN Ok(Write(r.st, <<"\n">>), NullValue)
           ELSE r

\* Interpreter::executeIfStatement
executeIfStatement(statement, st) ==
  LET rc == Eval(statement.condition, st)
  IN  IF rc.sig # "none" THEN rc
      ELSE LET envs1 == NewEnvironment(rc.st.envs, rc.st.environment_)
               s1 == [rc.st EXCEPT !.envs = envs1]
           IN  IF isTruthy(rc.val) THEN ExecBlock(statement.thenBranch, Len(envs1), s1)
               ELSE IF statement.elseBranch.type # "NULLPTR"
                 THEN ExecBlock(statement.elseBranch, Len(envs1), s1)
               ELSE Ok(rc.st, NullValue)

\* a loop without its catch (Break&): the exception leaves the loop
AfterLoopBodyRethrowing(rb) ==
  IF rb.sig # "none" THEN "throw"
  ELSE "next"

\* what executeLoopStatement does with the outcome of one body execution:
\* "exit" leaves the while loop, "throw" propagates, "next" goes on
AfterLoopBody(rb) ==
  IF rb.sig = "Break" THEN "exit"
  ELSE IF rb.sig # "none" THEN "throw"
  ELSE "next"

\* one pass of the while (true) of executeLoopStatement: the outcome, with
\* sig "next" when the loop goes on
LoopIteration(statement, st) ==
  LET hasCond == statement.condition.type # "NULLPTR"
      rc == IF hasCond THEN Eval(statement.condition, st)
            ELSE Ok(st, NullValue)
  IN  IF rc.sig # "none" THEN rc
      ELSE IF hasCond /\ ~isTruthy(rc.val) THEN Ok(rc.st, NullValue)
      ELSE
        LET rb == ExecBlock(statement.body, rc.st.environment_, rc.st)
        IN  IF AfterLoopBody(rb) = "exit" THEN Ok(rb.st, NullValue)
            ELSE IF AfterLoopBody(rb) = "throw" THEN rb
            ELSE
              LET ri == IF statement.increment.type # "NULLPTR"
                        THEN Eval(statement.increment, rb.st)
                        ELSE Ok(rb.st, NullValue)
              IN  IF ri.sig # "none" THEN ri
                  ELSE Throw(Tick(ri.st), "next", NullValue, NoWhat)

\* the while (true) of executeLoopStatement
LoopIterations(statement, st) ==
  IF st.steps >= MaxSteps THEN Throw(st, "Diverge", NullValue, NoWhat)
  ELSE LET r == LoopIteration(statement, st)
       IN  IF r.sig = "next" THEN LoopIterations(statement, r.st) ELSE r

\* Interpreter::executeLoopStatement
executeLoopStatement(statement, st) ==
  LET previousEnv == st.environment_
      envs1 == NewEnvironment(st.envs, st.environment_)
      s1 == [st EXCEPT !.envs = envs1, !.environment_ = Len(envs1)]
      r0 == IF statement.init.type = "NULLPTR" THEN Ok(s1, NullValue)
            ELSE IF statement.init.type = "VARIABLE_DECLARATION"
              THEN executeVariableDeclaration(statement.init, s1)
            ELSE IF statement.init.type = "EXPRESSION"
              THEN executeExpressionStatement(statement.init, s1)
            ELSE RuntimeError(s1, "Invalid loop initializer", <<>>)
  IN  IF r0.sig # "none" THEN r0
      ELSE LET r == LoopIterations(statement, r0.st)
           IN  IF r.sig \in {"none", "Return"}
                 THEN [r EXCEPT !.st.environment_ = previousEnv]
               ELSE r

\* Interpreter::executeFunctionDeclaration; cloning a missing body
\* dereferences a null pointer
executeFunctionDeclaration(statement, st) ==
  IF statement.body.type = "NULLPTR" THEN Throw(st, "UB", NullValue, NoWhat)
  ELSE Ok([st EXCEPT !.envs =
             define(@, st.environment_, statement.name,
                    FunctionValue(statement.name, statement.parameters, statement.body))],
          NullValue)

\* the switch of executeBlock on one statement
executeStatement(stmt, st) ==
  CASE stmt.type = "BLOCK" ->
         LET envs1 == NewEnvironment(st.envs, st.environment_)
         IN  ExecBlock(stmt, Len(envs1), [st EXCEPT !.envs = envs1])
    [] stmt.type = "VARIABLE_DECLARATION" -> executeVariableDeclaration(stmt, st)
    [] stmt.type = "FUNCTION_DECLARATION" -> executeFunctionDeclaration(stmt, st)
    [] stmt.type = "LOOP" -> executeLoopStatement(stmt, st)
    [] stmt.type = "IF" -> executeIfStatement(stmt, st)
    [] stmt.type = "PRINT" -> executePrintStatement(stmt, st)
    [] stmt.type = "RETURN" -> executeReturnStatement(stmt, st)
    [] stmt.type = "BREAK" -> Throw(st, "Break", NullValue, NoWhat)
    [] stmt.type = "EXPRESSION" -> executeExpressionStatement(stmt, st)
    [] OTHER -> RuntimeError(st, "Unknown statement type", <<>>)

\* the for loop of executeBlock, from statement i on
executeStatements(stmts, i, st) ==
  IF i > Len(stmts) THEN Ok(st, NullValue)
  ELSE LET r == executeStatement(stmts[i], st)
       IN  IF r.sig # "none" THEN r ELSE executeStatements(stmts, i + 1, r.st)

\* the catch clauses of Interpreter::executeBlock and its normal exit: r is the
\* outcome of the statement loop, previousEnv the pointer saved on entry
BlockExit(r, previousEnv) ==
  IF r.sig \in {"none", "Return", "Break"}
    THEN [r EXCEPT !.st.environment_ = previousEnv]
  ELSE IF r.sig = "RuntimeError"
    THEN [r EXCEPT !.st = [WriteErr(r.st, "Runtime Error: ", r.what)
                             EXCEPT !.environment_ = previousEnv]]
  ELSE r

\* Interpreter::executeBlock
executeBlock(statement, environment, st) ==
  LET previousEnv == st.environment_
  IN  BlockExit(executeStatements(statement.statements, 1,
                                  [st EXCEPT !.environment_ = environment]),
                previousEnv)

(***************************************************************************)
(* Interpreter: expressions.  The outcome's val is the value returned.     *)
(***************************************************************************)
\* Interpreter::evaluateLiteral
evaluateLiteral(expression) ==
  LET value == expression.value
  IN  IF value.alt = "double" THEN
        (IF DIsIntegral(value.d) THEN IntegerValue(Apply("DTrunc", <<value.d>>)) ELSE NumberValue(value.d))
      ELSE IF value.alt = "string" THEN StringValue(value.s)
      ELSE IF value.alt = "bool" THEN BooleanValue(value.b)
      ELSE NullValue

\* Interpreter::evaluateIdentifier
evaluateIdentifier(expression, st) ==
  IF IsBound(st.envs, st.environment_, expression.name)
    THEN Ok(st, get(st.envs, st.environment_, expression.name))
  ELSE RuntimeError(st, "Undefined variable", expression.name)

\* the operators whose case of evaluateBinaryExpression is a Value operator
ValueOperator(op, left, right) ==
  CASE op = "PLUS" -> Apply("operatorPlus", <<left, right>>)
    [] op = "MINUS" -> Apply("operatorMinus", <<left, right>>)
    [] op = "MULTIPLY" -> Apply("operatorMultiply", <<left, right>>)
    [] op = "DIVIDE" -> Apply("operatorDivide", <<left, right>>)
    [] op = "MODULO" -> Apply("operatorModulo", <<left, right>>)
    [] op = "EQUALS" -> BooleanValue(Apply("operatorEquals", <<left, right>>))
    [] op = "NOT_EQUALS" -> BooleanValue(operatorNotEquals(left, right))
    [] op = "LESS" -> BooleanValue(Apply("operatorLess", <<left, right>>))
    [] op = "LESS_EQ" -> BooleanValue(Apply("operatorLessEq", <<left, right>>))
    [] op = "GREATER" -> BooleanValue(Apply("operatorGreater", <<left, right>>))
    [] op = "GREATER_EQ" -> BooleanValue(Apply("operatorGreaterEq", <<left, right>>))
    [] op = "AND" ->
         IF ~isTruthy(left) THEN BooleanValue(FALSE) ELSE BooleanValue(isTruthy(right))
    [] OTHER -> \* "OR"
         IF isTruthy(left) THEN BooleanValue(TRUE) ELSE BooleanValue(isTruthy(right))

\* left / right or left % right divides INT_MIN by -1
OperatorTraps(op, left, right) ==
  /\ op \in {"DIVIDE", "MODULO"}
  /\ isInteger(left) /\ isInteger(right)
  /\ DivisionTraps(left.integer_, right.integer_)

\* environment_->assign(name, value) returning or throwing a, followed by
\* return rightValue
Assigned(a, st, name, rightValue) ==
  IF a.thrown THEN RuntimeError(st, "Undefined variable", name)
  ELSE Ok([st EXCEPT !.envs = a.envs], rightValue)

\* case TokenType::ASSIGN of evaluateBinaryExpression; right is the value of
\* the right operand, already evaluated
evaluateAssign(expression, right, st) ==
  IF expression.left.type = "ARRAY_ACCESS" THEN
    LET arrayAccess == expression.left
    IN  IF arrayAccess.array.type # "IDENTIFIER"
          THEN RuntimeError(st, "Cannot assign to an element of a non-variable array", <<>>)
        ELSE
          LET arrayName == arrayAccess.array.name
          IN  IF ~IsBound(st.envs, st.environment_, arrayName)
                THEN RuntimeError(st, "Undefined variable", arrayName)
              ELSE
                LET array == get(st.envs, st.environment_, arrayName)
                    ri == Eval(arrayAccess.index, st)
                IN  IF ri.sig # "none" THEN ri
                    ELSE
                      LET index == Apply("DTrunc", <<Apply("asNumber", <<ri.val>>)>>)
                          array1 == setArrayElement(array, index, right)
                      IN  Assigned(assign(ri.st.envs, ri.st.environment_, arrayName, array1),
                                   ri.st, arrayName, right)
  ELSE IF expression.left.type # "IDENTIFIER"
    THEN RuntimeError(st, "Invalid assignment target", <<>>)
  ELSE
    LET name == expression.left.name
        plus == expression.right.type = "BINARY" /\ expression.right.op = "PLUS"
        r1 == IF plus THEN Eval(expression.right.left, st) ELSE Ok(st, NullValue)
        r2 == IF plus /\ r1.sig = "none"
              THEN Eval(expression.right.right, r1.st) ELSE r1
    IN  IF r2.sig # "none" THEN r2
        ELSE
          LET rightValue == IF plus /\ isNumber(r1.val) /\ isNumber(r2.val)
                            THEN NumberValue(Apply("DAdd", <<Apply("asNumber", <<r1.val>>), Apply("asNumber", <<r2.val>>)>>))
                            ELSE right
          IN  Assigned(assign(r2.st.envs, r2.st.environment_, name, rightValue),
                       r2.st, name, rightValue)

\* tokenTypeToString
tokenTypeToString(type) ==
  CASE type = "EOF_TOKEN" -> <<"E", "O", "F">>
    [] type = "ERROR" -> <<"E", "R", "R", "O", "R">>
    [] type = "IDENTIFIER" -> <<"I", "D", "E", "N", "T", "I", "F", "I", "E", "R">>
    [] type = "NUMBER" -> <<"N", "U", "M", "B", "E", "R">>
    [] type = "STRING" -> <<"S", "T", "R", "I", "N", "G">>
    [] type = "PLUS" -> <<"P", "L", "U", "S">>
    [] type = "MINUS" -> <<"M", "I", "N", "U", "S">>
    [] type = "MULTIPLY" -> <<"M", "U", "L", "T", "I", "P", "L", "Y">>
    [] type = "DIVIDE" -> <<"D", "I", "V", "I", "D", "E">>
    [] type = "MODULO" -> <<"M", "O", "D", "U", "L", "O">>
    [] type = "ASSIGN" -> <<"A", "S", "S", "I", "G", "N">>
    [] type = "EQUALS" -> <<"E", "Q", "U", "A", "L", "S">>
    [] type = "NOT_EQUALS" -> <<"N", "O", "T", "_", "E", "Q", "U", "A", "L", "S">>
    [] type = "LESS" -> <<"L", "E", "S", "S">>
    [] type = "GREATER" -> <<"G", "R", "E", "A", "T", "E", "R">>
    [] type = "LESS_EQ" -> <<"L", "E", "S", "S", "_", "E", "Q">>
    [] type = "GREATER_EQ" -> <<"G", "R", "E", "A", "T", "E", "R", "_", "E", "Q">>
    [] type = "BANG" -> <<"B", "A", "N", "G">>
    [] type = "AND" -> <<"A", "N", "D">>
    [] type = "OR" -> <<"O", "R">>
    [] type = "LPAREN" -> <<"L", "P", "A", "R", "E", "N">>
    [] type = "RPAREN" -> <<"R", "P", "A", "R", "E", "N">>
    [] type = "LBRACE" -> <<"L", "B", "R", "A", "C", "E">>
    [] type = "RBRACE" -> <<"R", "B", "R", "A", "C", "E">>
    [] type = "LBRACKET" -> <<"L", "B", "R", "A", "C", "K", "E", "T">>
    [] type = "RBRACKET" -> <<"R", "B", "R", "A", "C", "K", "E", "T">>
    [] type = "COMMA" -> <<"C", "O", "M", "M", "A">>
    [] type = "SEMICOLON" -> <<"S", "E", "M", "I", "C", "O", "L", "O", "N">>
    [] type = "DOT" -> <<"D", "O", "T">>
    [] type = "FUNC" -> <<"F", "U", "N", "C">>
    [] type = "PRINT" -> <<"P", "R", "I", "N", "T">>
    [] type = "PRINTLN" -> <<"P", "R", "I", "N", "T", "L", "N">>
    [] type = "LOOP" -> <<"L", "O", "O", "P">>
    [] type = "IF" -> <<"I", "F">>
    [] type = "ELSE" -> <<"E", "L", "S", "E">>
    [] type = "RETURN" -> <<"R", "E", "T", "U", "R", "N">>
    [] type = "VAR" -> <<"V", "A", "R">>
    [] type = "TRUE" -> <<"T", "R", "U", "E">>
    [] type = "FALSE" -> <<"F", "A", "L", "S", "E">>
    [] type = "NULL_TOKEN" -> <<"N", "U", "L", "L">>
    [] type = "BREAK" -> <<"B", "R", "E", "A", "K">>
    [] OTHER -> <<"U", "N", "K", "N", "O", "W", "N">>

\* Interpreter::evaluateBinaryExpression
evaluateBinaryExpression(expression, st) ==
  IF expression.op \in {"IDENTIFIER", "NUMBER", "STRING", "EOF_TOKEN", "ERROR"}
    THEN Eval(expression.left, st)
  ELSE
    LET rl == Eval(expression.left, st)
    IN  IF rl.sig # "none" THEN rl
        ELSE
          LET rr == Eval(expression.right, rl.st)
          IN  IF rr.sig # "none" THEN rr
              ELSE IF expression.op \in
                        {"PLUS", "MINUS", "MULTIPLY", "DIVIDE", "MODULO", "EQUALS",
                         "NOT_EQUALS", "LESS", "LESS_EQ", "GREATER", "GREATER_EQ",
                         "AND", "OR"}
                THEN (IF OperatorTraps(expression.op, rl.val, rr.val)
                        THEN Throw(rr.st, "UB", NullValue, NoWhat)
                      ELSE Ok(rr.st, ValueOperator(expression.op, rl.val, rr.val)))
              ELSE IF expression.op = "ASSIGN" THEN evaluateAssign(expression, rr.val, rr.st)
              ELSE RuntimeError(rr.st, "Unknown binary operator",
                                tokenTypeToString(expression.op))

\* Interpreter::evaluateUnaryExpression
evaluateUnaryExpression(expression, st) ==
  LET r == Eval(expression.expr, st)
  IN  IF r.sig # "none" THEN r
      ELSE IF expression.op = "MINUS" THEN Ok(r.st, NumberValue(DNeg(Apply("asNumber", <<r.val>>))))
      ELSE IF expression.op = "BANG" THEN Ok(r.st, BooleanValue(~isTruthy(r.val)))
      ELSE RuntimeError(r.st, "Unknown unary operator", tokenTypeToString(expression.op))

\* the argument loop of evaluateCallExpression, from argument i on; the
\* outcome's val is the vector of argument values (as an Array)
evaluateArguments(args, i, acc, st) ==
  IF i > Len(args) THEN Ok(st, ArrayValue(acc))
  ELSE LET r == Eval(args[i], st)
       IN  IF r.sig # "none" THEN r
           ELSE evaluateArguments(args, i + 1, Append(acc, r.val), r.st)

\* a call environment enclosed by the global scope, whatever the call site
CallEnclosingGlobals(callee, st) == 1

\* the environment that encloses the environment of a call:
\* std::make_shared<Environment>(interpreter.getEnvironment())
CallEnclosing(callee, st) == st.environment_

\* the values_ of the call environment after the parameter loop of Value::call
BindParameters(parameters, arguments) ==
  [n \in {parameters[i] : i \in 1..Len(parameters)} |->
     arguments[CHOOSE i \in 1..Len(parameters) :
                 parameters[i] = n /\ \A j \in (i + 1)..Len(parameters) : parameters[j] # n]]

\* a call whose catch (Return&) drops the value carried by the exception
CallExitDroppingValue(r, previousEnv) ==
  IF r.sig = "none" \/ r.sig = "Return"
    THEN Ok([r.st EXCEPT !.environment_ = previousEnv], NullValue)
  ELSE r

\* a call that leaves the environment of the body current when it returns
CallExitKeepingEnvironment(r, previousEnv) ==
  IF r.sig = "none" THEN Ok(r.st, NullValue)
  ELSE IF r.sig = "Return" THEN Ok(r.st, r.val)
  ELSE r

\* the end of Value::call: the normal exit of the body and catch (Return&);
\* r is the outcome of executeBlock on the body
CallExit(r, previousEnv) ==
  IF r.sig = "none" THEN Ok([r.st EXCEPT !.environment_ = previousEnv], NullValue)
  ELSE IF r.sig = "Return" THEN Ok([r.st EXCEPT !.environment_ = previousEnv], r.val)
  ELSE r

\* Value::call (no native function is ever defined: defineNativeFunctions is empty)
call(callee, arguments, st) ==
  IF ~isFunction(callee) THEN RuntimeError(st, "Can only call functions", <<>>)
  ELSE IF Len(arguments) # Len(callee.parameters_)
    THEN RuntimeError(st, "Expected arguments but got",
                      IntToString(Len(callee.parameters_)) \o <<" ">>
                        \o IntToString(Len(arguments)))
  ELSE IF st.steps >= MaxSteps THEN Throw(st, "Diverge", NullValue, NoWhat)
  ELSE
    LET envs1 == Append(st.envs,
                        [values_ |-> BindParameters(callee.parameters_, arguments),
                         enclosing_ |-> CallEnclosing(callee, st)])
        environment == Len(envs1)
        previousEnv == st.environment_
        s1 == [Tick(st) EXCEPT !.envs = envs1, !.environment_ = environment]
    IN  CallExit(ExecBlock(callee.body_, environment, s1), previousEnv)

\* Interpreter::evaluateCallExpression
evaluateCallExpression(expression, st) ==
  LET rc == IF expression.callee.type = "IDENTIFIER"
            THEN evaluateIdentifier(expression.callee, st)
            ELSE Eval(expression.callee, st)
  IN  IF rc.sig # "none" THEN rc
      ELSE LET ra == evaluateArguments(expression.arguments, 1, <<>>, rc.st)
           IN  IF ra.sig # "none" THEN ra
               ELSE Call(rc.val, ra.val.array_, ra.st)

\* Interpreter::evaluateArrayExpression
evaluateArrayExpression(expression, st) == evaluateArguments(expression.elements, 1, <<>>, st)

\* Interpreter::evaluateArrayAccessExpression
evaluateArrayAccessExpression(expression, st) ==
  LET ra == Eval(expression.array, st)
  IN  IF ra.sig # "none" THEN ra
      ELSE LET ri == Eval(expression.index, ra.st)
           IN  IF ri.sig # "none" THEN ri
               ELSE Ok(ri.st, getArrayElement(ra.val, Apply("DTrunc", <<Apply("asNumber", <<ri.val>>)>>)))

\* Interpreter::evaluatePropertyAccessExpression
evaluatePropertyAccessExpression(expression, st) ==
  LET r == Eval(expression.object, st)
  IN  IF r.sig # "none" THEN r ELSE Ok(r.st, getProperty(r.val, expression.property))

\* Interpreter::evaluateExpression
evaluateExpression(expression, st) ==
  CASE expression.type = "BINARY" -> evaluateBinaryExpression(expression, st)
    [] expression.type = "UNARY" -> evaluateUnaryExpression(expression, st)
    [] expression.type = "IDENTIFIER" -> evaluateIdentifier(expression, st)
    [] expression.type = "LITERAL" -> Ok(st, evaluateLiteral(expression))
    [] expression.type = "CALL" -> evaluateCallExpression(expression, st)
    [] expression.type = "ARRAY" -> evaluateArrayExpression(expression, st)
    [] expression.type = "ARRAY_ACCESS" -> evaluateArrayAccessExpression(expression, st)
    [] expression.type = "PROPERTY_ACCESS" ->
         evaluatePropertyAccessExpression(expression, st)
    [] OTHER -> RuntimeError(st, "Unknown expression type", <<>>)

\* the recursive calls
Run(req, st) ==
  CASE req.fn = "executeBlock" -> executeBlock(req.statement, req.environment, st)
    [] req.fn = "evaluateExpression" -> evaluateExpression(req.expression, st)
    [] OTHER -> call(req.callee, req.arguments, st)

(***************************************************************************)
(* Lexer (lexer.cpp).  The source is a sequence of characters; current_    *)
(* and start_ count characters from 0 as in the C++ code.  line_ and       *)
(* column_ are size_t: a difference below zero stands for that number      *)
(* modulo 2^64.  A token carries, beside the fields of struct Token the    *)
(* parser reads, the offset start of its first character, which no code    *)
(* reads: it is kept to state where a token begins.                        *)
(***************************************************************************)
\* static const std::unordered_map<std::string, TokenType> keywords
keywords ==
  <<"f", "u", "n", "c">> :> "FUNC" @@ <<"p", "r", "i", "n", "t">> :> "PRINT"
    @@ <<"p", "r", "i", "n", "t", "l", "n">> :> "PRINTLN"
    @@ <<"l", "o", "o", "p">> :> "LOOP" @@ <<"i", "f">> :> "IF"
    @@ <<"e", "l", "s", "e">> :> "ELSE" @@ <<"r", "e", "t", "u", "r", "n">> :> "RETURN"
    @@ <<"v", "a", "r">> :> "VAR" @@ Chars_true :> "TRUE" @@ Chars_false :> "FALSE"
    @@ Chars_null :> "NULL_TOKEN" @@ <<"b", "r", "e", "a", "k">> :> "BREAK"

\* the one-character tokens of scanToken
Punctuation ==
  "(" :> "LPAREN" @@ ")" :> "RPAREN" @@ "{" :> "LBRACE" @@ "}" :> "RBRACE"
    @@ "[" :> "LBRACKET" @@ "]" :> "RBRACKET" @@ ";" :> "SEMICOLON" @@ "," :> "COMMA"
    @@ "." :> "DOT" @@ "-" :> "MINUS" @@ "+" :> "PLUS" @@ "/" :> "DIVIDE"
    @@ "*" :> "MULTIPLY" @@ "%" :> "MODULO"

\* the tokens of scanToken that look at a second character: the character
\* matched, the token when it matches and the token when it does not
Compound ==
  "!" :> <<"=", "NOT_EQUALS", "BANG">> @@ "=" :> <<"=", "EQUALS", "ASSIGN">>
    @@ "<" :> <<"=", "LESS_EQ", "LESS">> @@ ">" :> <<"=", "GREATER_EQ", "GREATER">>
    @@ "&" :> <<"&", "AND", "ERROR">> @@ "|" :> <<"|", "OR", "ERROR">>

\* struct Token; the four-argument constructor sets value to std::string()
Token(t, v, l, c, first) ==
  [type |-> t, value |-> v, line |-> l, column |-> c, start |-> first]

\* no token: what a call of nextToken() that throws returns
NoToken == Token("", TokenString(<<>>), 0, 0, 0)

\* Lexer::Lexer
Lexer(source) ==
  [source_ |-> source, current_ |-> 0, start_ |-> 0, line_ |-> 1, column_ |-> 1,
   tokenBuffer_ |-> <<>>]

\* Lexer::isAtEnd
isAtEnd(lx) == lx.current_ >= Len(lx.source_)

\* Lexer::isEOF
isEOF(lx) == isAtEnd(lx)

\* Lexer::peek; the character '\0' is the empty string
peek(lx) == IF isAtEnd(lx) THEN "" ELSE lx.source_[lx.current_ + 1]

\* Lexer::peekNext
peekNext(lx) ==
  IF lx.current_ + 1 >= Len(lx.source_) THEN "" ELSE lx.source_[lx.current_ + 2]

\* Lexer::advance: the lexer after the call (the character returned is peek)
Lexer_advance(lx) ==
  [lx EXCEPT !.current_ = @ + 1,
             !.line_ = IF peek(lx) = "\n" THEN @ + 1 ELSE @,
             !.column_ = IF peek(lx) = "\n" THEN 1 ELSE @ + 1]

\* Lexer::match: the lexer after the call, which moved iff the result is true
Lexer_match(lx, expected) ==
  IF isAtEnd(lx) \/ peek(lx) # expected THEN lx
  ELSE [lx EXCEPT !.current_ = @ + 1, !.column_ = @ + 1]

\* std::isalpha and std::isalnum in the C locale
isalpha(c) == \E k \in (34..59) \cup (66..91) : Ascii[k] = c
isalnum(c) == isalpha(c) \/ IsDigit(c)

RECURSIVE skipComment(_)
\* Lexer::skipComment
skipComment(lx) ==
  IF peek(lx) # "\n" /\ ~isAtEnd(lx) THEN skipComment(Lexer_advance(lx)) ELSE lx

RECURSIVE skipWhitespace(_)
\* Lexer::skipWhitespace
skipWhitespace(lx) ==
  IF peek(lx) \in {" ", "\r", "\t", "\n"} THEN skipWhitespace(Lexer_advance(lx))
  ELSE IF peek(lx) = "/" /\ peekNext(lx) = "/" THEN skipWhitespace(skipComment(lx))
  ELSE lx

\* the offset after the characters of an identifier ("alnum": isalnum or
\* '_') or of a run of digits ("digit"): the while loops of scanIdentifier
\* and scanNumber
RECURSIVE AdvanceWhile(_, _)
AdvanceWhile(lx, class) ==
  IF (class = "alnum" /\ (isalnum(peek(lx)) \/ peek(lx) = "_"))
       \/ (class = "digit" /\ IsDigit(peek(lx)))
    THEN AdvanceWhile(Lexer_advance(lx), class)
  ELSE lx

\* Lexer::identifierType
identifierType(text) == IF text \in DOMAIN keywords THEN keywords[text] ELSE "IDENTIFIER"

\* the rest of Lexer::scanIdentifier, once its while loop has ended at lx
IdentifierToken(lx, text, type) ==
  IF text = <<"l", "o", "o", "p">> /\ peek(lx) = "("
    THEN [thrown |-> "", lx |-> [Lexer_advance(lx) EXCEPT
                    !.tokenBuffer_ =
                      Append(@, Token("LPAREN", TokenString(<<>>), lx.line_, lx.column_,
                                      lx.current_)),
                    !.start_ = lx.current_ + 1],
          token |-> Token("LOOP", TokenString(<<>>), lx.line_, lx.column_ - Len(text),
                          lx.start_)]
  ELSE [thrown |-> "", lx |-> lx,
        token |-> Token(type,
                        IF type = "IDENTIFIER" THEN TokenString(text)
                        ELSE IF type = "TRUE" THEN TokenBool(TRUE)
                        ELSE IF type = "FALSE" THEN TokenBool(FALSE)
                        ELSE TokenString(<<>>),
                        lx.line_, lx.column_ - Len(text), lx.start_)]

\* the characters source_.substr(start_, current_ - start_)
Lexeme(lx) == SubSeq(lx.source_, lx.start_ + 1, lx.current_)

\* Lexer::scanIdentifier; lx is the lexer after the first character
scanIdentifier(lx) ==
  IdentifierToken(AdvanceWhile(lx, "alnum"), Lexeme(AdvanceWhile(lx, "alnum")),
                  identifierType(Lexeme(AdvanceWhile(lx, "alnum"))))

\* std::stod on the digits[.digits] of a number literal: the value returned
stod(s) == Apply("strtod", <<s>>).value

\* the rest of Lexer::scanNumber, once its first while loop has ended at lx:
\* std::stod throws std::out_of_range, whose what() is "stod", when the
\* literal overflows or underflows, and no token is built
NumberToken(lx) ==
  IF StodThrows(Lexeme(lx)) THEN [thrown |-> "stod", lx |-> lx, token |-> NoToken]
  ELSE [thrown |-> "", lx |-> lx,
        token |-> Token("NUMBER", TokenDouble(stod(Lexeme(lx))), lx.line_,
                        lx.column_ - Len(Lexeme(lx)), lx.start_)]

\* Lexer::scanNumber; lx is the lexer after the first digit
scanNumber(lx) ==
  IF peek(AdvanceWhile(lx, "digit")) = "." /\ IsDigit(peekNext(AdvanceWhile(lx, "digit")))
    THEN NumberToken(AdvanceWhile(Lexer_advance(AdvanceWhile(lx, "digit")), "digit"))
  ELSE NumberToken(AdvanceWhile(lx, "digit"))

RECURSIVE StringEnd(_)
\* the while loop of Lexer::scanString: a newline increments line_ and resets
\* column_ in the loop body, and then again in advance()
StringEnd(lx) ==
  IF peek(lx) # "\"" /\ ~isAtEnd(lx)
    THEN StringEnd(Lexer_advance(IF peek(lx) = "\n"
                                 THEN [lx EXCEPT !.line_ = @ + 1, !.column_ = 1]
                                 ELSE lx))
  ELSE lx

\* the rest of Lexer::scanString, once its while loop has ended at lx
StringToken(lx) ==
  IF isAtEnd(lx)
    THEN [thrown |-> "", lx |-> lx,
          token |-> Token("ERROR", TokenString(<<>>), lx.line_, lx.column_, lx.start_)]
  ELSE [thrown |-> "", lx |-> Lexer_advance(lx),
        token |-> Token("STRING",
                        TokenString(SubSeq(lx.source_, lx.start_ + 2, lx.current_)),
                        lx.line_, (lx.column_ + 1) - (lx.current_ - lx.start_ - 1) - 2,
                        lx.start_)]

\* Lexer::scanString; lx is the lexer after the opening quote
scanString(lx) == StringToken(StringEnd(lx))

\* the cases '!', '=', '<', '>', '&' and '|' of Lexer::scanToken; lx is the
\* lexer after the character c, l2 the lexer after match()
CompoundToken(c, lx, l2) ==
  [thrown |-> "", lx |-> l2,
   token |-> IF l2 # lx
             THEN Token(Compound[c][2], TokenString(<<>>), l2.line_, l2.column_ - 2,
                        lx.start_)
             ELSE Token(Compound[c][3], TokenString(<<>>), l2.line_, l2.column_ - 1,
                        lx.start_)]

\* Lexer::scanToken after c = advance(); lx is the lexer after the character c
ScanCharacter(c, lx) ==
  IF isalpha(c) \/ c = "_" THEN scanIdentifier(lx)
  ELSE IF IsDigit(c) THEN scanNumber(lx)
  ELSE IF c \in DOMAIN Punctuation
    THEN [thrown |-> "", lx |-> lx,
          token |-> Token(Punctuation[c], TokenString(<<>>), lx.line_, lx.column_ - 1,
                          lx.start_)]
  ELSE IF c \in DOMAIN Compound THEN CompoundToken(c, lx, Lexer_match(lx, Compound[c][1]))
  ELSE IF c = "\"" THEN scanString(lx)
  ELSE [thrown |-> "", lx |-> lx,
        token |-> Token("ERROR", TokenString(<<>>), lx.line_, lx.column_ - 1, lx.start_)]

\* Lexer::scanToken
scanToken(lx) == ScanCharacter(peek(lx), Lexer_advance(lx))

\* Lexer::nextToken once skipWhitespace() has returned and start_ is set
NextTokenFrom(lx) ==
  IF isAtEnd(lx)
    THEN [thrown |-> "", lx |-> lx,
          token |-> Token("EOF_TOKEN", TokenString(<<>>), lx.line_, lx.column_, lx.start_)]
  ELSE IF lx.tokenBuffer_ # <<>>
    THEN [thrown |-> "", lx |-> [lx EXCEPT !.tokenBuffer_ = Tail(@)],
          token |-> Head(lx.tokenBuffer_)]
  ELSE scanToken(lx)

\* Lexer::nextToken: the lexer after the call and the token returned, or the
\* what() of the exception that left it (thrown, "" when it returned)
nextToken(lx) ==
  NextTokenFrom([skipWhitespace(lx) EXCEPT !.start_ = skipWhitespace(lx).current_])

(***************************************************************************)
(* Parser (parser.cpp).  The parser is the record of its lexer_ and its    *)
(* currentToken_, with the history tokens of the tokens nextToken() has    *)
(* returned to it.  A parse function returns the parser after the call,    *)
(* the node built and the std::runtime_error thrown, if any: err.msg is    *)
(* its message ("" when nothing was thrown) and err.at the token that      *)
(* consume() reports.  An exception that leaves nextToken() passes through *)
(* Parser::advance and through every parse function up to main: the       *)
(* parser keeps its what() in thrown, does nothing more, and whatever a    *)
(* parse function comes to afterwards, it is left by that exception.       *)
(***************************************************************************)
NoError == [msg |-> "", at |-> [type |-> "", line |-> 0, column |-> 0]]

\* the exception a parse function is left by when it comes to e on ps
Raised(ps, e) == IF ps.thrown = "" THEN e ELSE [NoError EXCEPT !.msg = ps.thrown]

\* a normal return
Parsed(ps, n) == [ps |-> ps, node |-> n, err |-> Raised(ps, NoError)]

\* throw std::runtime_error(message)
ParseError(ps, message) ==
  [ps |-> ps, node |-> NoNode, err |-> Raised(ps, [NoError EXCEPT !.msg = message])]

\* Parser::advance, t being what lexer_.nextToken() returns or throws
Fetched(ps, t) ==
  IF ps.thrown # "" THEN ps
  ELSE IF t.thrown # "" THEN [ps EXCEPT !.lexer_ = t.lx, !.thrown = t.thrown]
  ELSE [lexer_ |-> t.lx, currentToken_ |-> t.token, tokens |-> Append(ps.tokens, t.token),
        thrown |-> ""]

\* Parser::advance
Parser_advance(ps) == Fetched(ps, nextToken(ps.lexer_))

\* Parser::Parser
Parser(lexer) ==
  Parser_advance([lexer_ |-> lexer, currentToken_ |-> NoToken, tokens |-> <<>>,
                  thrown |-> ""])

\* Parser::check
check(ps, type) == ps.currentToken_.type = type

\* r when it threw, and otherwise next
Failed(r) == r.err # NoError

RECURSIVE ParseRun(_)
\* calls of the parser's functions from each other: a request carries the
\* parser the function is called on.  A function called after nextToken()
\* has thrown is not called: the exception is in flight.
Called(fn, ps) == IF ps.thrown = "" THEN fn ELSE "thrown"
PAdvance(ps) == ParseRun([fn |-> "advance", ps |-> ps])
PConsume(ps, expectedType, errorMessage) ==
  ParseRun([fn |-> Called("consume", ps), expectedType |-> expectedType,
            errorMessage |-> errorMessage, ps |-> ps])
PStatement(ps) == ParseRun([fn |-> Called("parseStatement", ps), ps |-> ps])
PStatements(stmts, block, ps) ==
  ParseRun([fn |-> Called("Statements", ps), stmts |-> stmts, block |-> block, ps |-> ps])
PBlock(ps) == ParseRun([fn |-> Called("parseBlock", ps), ps |-> ps])
PIfStatement(ps) == ParseRun([fn |-> Called("parseIfStatement", ps), ps |-> ps])
PExpression(ps) == ParseRun([fn |-> Called("parseExpression", ps), ps |-> ps])
POperand(level, ps) == ParseRun([fn |-> Called("Operand", ps), level |-> level, ps |-> ps])
PUnary(ps) == ParseRun([fn |-> Called("parseUnary", ps), ps |-> ps])
PArrayAccess(array, ps) ==
  ParseRun([fn |-> Called("parseArrayAccess", ps), node |-> array, ps |-> ps])
PPropertyAccess(object, ps) ==
  ParseRun([fn |-> Called("parsePropertyAccess", ps), node |-> object, ps |-> ps])

\* the loops of the parser, each from one pass on
RECURSIVE Statements(_, _, _)
RECURSIVE Parameters(_, _)
RECURSIVE BinaryRest(_, _, _)
RECURSIVE Expressions(_, _)

\* Parser::match: the parser after the call; the result is check(ps, type)
Parser_match(ps, type) == IF check(ps, type) THEN PAdvance(ps) ELSE ps

\* Parser::consume
consume(ps, expectedType, errorMessage) ==
  IF check(ps, expectedType) THEN Parsed(PAdvance(ps), NoNode)
  ELSE [ps |-> ps, node |-> NoNode,
        err |-> Raised(ps, [msg |-> errorMessage,
                            at |-> [type |-> ps.currentToken_.type,
                                    line |-> ps.currentToken_.line,
                                    column |-> ps.currentToken_.column]])]

\* the loops of Parser::parse (block false) and Parser::parseBlock (block
\* true): node is the vector of statements
Statements(stmts, block, ps) ==
  IF (block /\ check(ps, "RBRACE")) \/ isEOF(ps.lexer_) THEN Parsed(ps, stmts)
  ELSE LET r == PStatement(ps)
       IN  IF r.err # NoError THEN r ELSE Statements(Append(stmts, r.node), block, r.ps)

\* Parser::parse once its loop has ended with r: the Block of the statements
Program(r) == IF r.err # NoError THEN r ELSE Parsed(r.ps, BlockStatement(r.node))

\* Parser::parse
parse(ps) == Program(PStatements(<<>>, FALSE, ps))

\* Parser::parseBlock
parseBlock(ps) ==
  LET c1 == PConsume(ps, "LBRACE", "Expected '{' to start block")
  IN  IF c1.err # NoError THEN c1
      ELSE LET r == Statements(<<>>, TRUE, c1.ps)
           IN  IF r.err # NoError THEN r
               ELSE LET c2 == PConsume(r.ps, "RBRACE", "Expected '}' to end block")
                    IN  IF c2.err # NoError THEN c2 ELSE Parsed(c2.ps, BlockStatement(r.node))

\* the statement that ends with PConsume(SEMICOLON, message) after r
Terminated(r, message) ==
  IF r.err # NoError THEN r
  ELSE LET c == PConsume(r.ps, "SEMICOLON", message)
       IN  IF c.err # NoError THEN c ELSE Parsed(c.ps, r.node)

\* the elements of a bracketed list after its '[': empty before ']',
\* otherwise parseExpression() while match(COMMA); then the ']' is consumed
Elements(ps, message) ==
  LET r == IF check(ps, "RBRACKET") THEN Parsed(ps, <<>>) ELSE Expressions(<<>>, ps)
  IN  IF r.err # NoError THEN r
      ELSE LET c == PConsume(r.ps, "RBRACKET", message)
           IN  IF c.err # NoError THEN c ELSE Parsed(c.ps, ArrayExpression(r.node))

\* Parser::parseVariableDeclaration from "if (match(TokenType::ASSIGN))" on
Initializer(ps, isArrayDeclaration) ==
  IF check(ps, "ASSIGN") THEN
    (IF isArrayDeclaration /\ check(PAdvance(ps), "LBRACKET")
       THEN Elements(PAdvance(PAdvance(ps)),
                     "Expected ']' after array initializer")
     ELSE PExpression(PAdvance(ps)))
  ELSE IF isArrayDeclaration THEN Parsed(ps, ArrayExpression(<<>>))
  ELSE Parsed(ps, NoNode)

\* Parser::parseVariableDeclaration
parseVariableDeclaration(ps) ==
  LET c1 == PConsume(ps, "VAR", "Expected 'var' keyword")
  IN  IF c1.err # NoError THEN c1
      ELSE IF ~check(c1.ps, "IDENTIFIER") THEN ParseError(c1.ps, "Expected variable name")
      ELSE
        LET p1 == PAdvance(c1.ps)
            c2 == IF check(p1, "LBRACKET")
                  THEN PConsume(PAdvance(p1), "RBRACKET", "Expected ']' after '['")
                  ELSE Parsed(p1, NoNode)
        IN  IF c2.err # NoError THEN c2
            ELSE LET r == Terminated(Initializer(c2.ps, check(p1, "LBRACKET")),
                                     "Expected ';' after variable declaration")
                 IN  IF r.err # NoError THEN r
                     ELSE Parsed(r.ps,
                                 VariableDeclaration(c1.ps.currentToken_.value.s, r.node))

\* the do-while loop of Parser::parseParameters: node is the vector of names
Parameters(acc, ps) ==
  IF ~check(ps, "IDENTIFIER") THEN ParseError(ps, "Expected parameter name")
  ELSE IF check(PAdvance(ps), "COMMA")
    THEN Parameters(Append(acc, ps.currentToken_.value.s),
                     PAdvance(PAdvance(ps)))
  ELSE Parsed(PAdvance(ps), Append(acc, ps.currentToken_.value.s))

\* Parser::parseParameters
parseParameters(ps) == IF check(ps, "RPAREN") THEN Parsed(ps, <<>>) ELSE Parameters(<<>>, ps)

\* Parser::parseFunctionDeclaration from the parameters on: a block is the
\* body, a ';' leaves the body null
FunctionRest(name, ps) ==
  LET r == parseParameters(ps)
  IN  IF r.err # NoError THEN r
      ELSE
        LET c == PConsume(r.ps, "RPAREN", "Expected ')' after parameters")
        IN  IF c.err # NoError THEN c
            ELSE
              LET b == IF check(c.ps, "LBRACE") THEN PBlock(c.ps)
                       ELSE PConsume(c.ps, "SEMICOLON",
                                    "Expected ';' or block after function declaration")
              IN  IF b.err # NoError THEN b
                  ELSE Parsed(b.ps, FunctionDeclaration(name, r.node, b.node))

\* Parser::parseFunctionDeclaration
parseFunctionDeclaration(ps) ==
  LET c1 == PConsume(ps, "FUNC", "Expected 'func' keyword")
  IN  IF c1.err # NoError THEN c1
      ELSE IF ~check(c1.ps, "IDENTIFIER") THEN ParseError(c1.ps, "Expected function name")
      ELSE
        LET c2 == PConsume(PAdvance(c1.ps), "LPAREN", "Expected '(' after function name")
        IN  IF c2.err # NoError THEN c2 ELSE FunctionRest(c1.ps.currentToken_.value.s, c2.ps)

\* Parser::parseLoopStatement: the initializer of a header that starts with
\* 'var' or ';'
LoopInit(ps) ==
  IF check(ps, "VAR") THEN parseVariableDeclaration(ps)
  ELSE PConsume(ps, "SEMICOLON", "Expected ';' after loop initializer")

\* the condition of the header: absent before ';' and ')'
LoopCondition(ps) ==
  IF ~check(ps, "SEMICOLON") /\ ~check(ps, "RPAREN") THEN PExpression(ps)
  ELSE Parsed(ps, NoNode)

\* the ';' after the condition and the increment: absent before ')'
LoopIncrement(ps) ==
  IF check(ps, "SEMICOLON") /\ ~check(PAdvance(ps), "RPAREN")
    THEN PExpression(PAdvance(ps))
  ELSE Parsed(Parser_match(ps, "SEMICOLON"), NoNode)

\* the header once its increment is parsed with outcome n
HeaderAfterIncrement(init, condition, n) ==
  IF n.err # NoError THEN n ELSE Parsed(n.ps, <<init, condition, n.node>>)

\* the header once its condition is parsed with outcome c
HeaderAfterCondition(init, c) ==
  IF c.err # NoError THEN c ELSE HeaderAfterIncrement(init, c.node, LoopIncrement(c.ps))

\* the header once its initializer is parsed with outcome i
HeaderAfterInit(i) ==
  IF i.err # NoError THEN i ELSE HeaderAfterCondition(i.node, LoopCondition(i.ps))

\* a header that is a condition only, parsed with outcome c
ConditionHeader(c) ==
  IF c.err # NoError THEN c ELSE Parsed(c.ps, <<NoNode, c.node, NoNode>>)

\* the header between '(' and ')': node is <<init, condition, increment>>
LoopHeader(ps) ==
  IF check(ps, "RPAREN") THEN Parsed(ps, <<NoNode, NoNode, NoNode>>)
  ELSE IF check(ps, "VAR") \/ check(ps, "SEMICOLON") THEN HeaderAfterInit(LoopInit(ps))
  ELSE ConditionHeader(PExpression(ps))

\* the loop once its body is parsed with outcome b
LoopAfterBody(header, b) ==
  IF b.err # NoError THEN b
  ELSE Parsed(b.ps, LoopStatement(header[1], header[2], header[3], b.node))

\* the loop once the ')' of its header, if any, is consumed with outcome c
LoopAfterParen(header, c) ==
  IF c.err # NoError THEN c ELSE LoopAfterBody(header, PBlock(c.ps))

\* the loop once its header, if any, is parsed with outcome h
LoopAfterHeader(hasHeader, h) ==
  IF h.err # NoError THEN h
  ELSE LoopAfterParen(h.node, IF hasHeader
                              THEN PConsume(h.ps, "RPAREN", "Expected ')' after loop")
                              ELSE Parsed(h.ps, NoNode))

\* Parser::parseLoopStatement from "if (check(TokenType::LPAREN))" on
LoopRest(ps) ==
  LoopAfterHeader(check(ps, "LPAREN"),
                  IF check(ps, "LPAREN") THEN LoopHeader(PAdvance(ps))
                  ELSE Parsed(ps, <<NoNode, NoNode, NoNode>>))

\* Parser::parseLoopStatement
parseLoopStatement(ps) ==
  LET c == PConsume(ps, "LOOP", "Expected 'loop' keyword")
  IN  IF c.err # NoError THEN c ELSE LoopRest(c.ps)

\* Parser::parseIfStatement from "if (match(TokenType::ELSE))" on
ElseBranch(ps) ==
  IF ~check(ps, "ELSE") THEN Parsed(ps, NoNode)
  ELSE IF check(PAdvance(ps), "IF") THEN
    LET r == PIfStatement(PAdvance(ps))
    IN  IF r.err # NoError THEN r ELSE Parsed(r.ps, BlockStatement(<<r.node>>))
  ELSE PBlock(PAdvance(ps))

\* Parser::parseIfStatement from the condition on
IfRest(ps) ==
  LET c == PExpression(ps)
  IN  IF c.err # NoError THEN c
      ELSE
        LET c2 == PConsume(c.ps, "RPAREN", "Expected ')' after condition")
        IN  IF c2.err # NoError THEN c2
            ELSE
              LET t == PBlock(c2.ps)
              IN  IF t.err # NoError THEN t
                  ELSE LET e == ElseBranch(t.ps)
                       IN  IF e.err # NoError THEN e
                           ELSE Parsed(e.ps, IfStatement(c.node, t.node, e.node))

\* Parser::parseIfStatement
parseIfStatement(ps) ==
  LET c1 == PConsume(ps, "IF", "Expected 'if' keyword")
  IN  IF c1.err # NoError THEN c1
      ELSE LET c2 == PConsume(c1.ps, "LPAREN", "Expected '(' after 'if'")
           IN  IF c2.err # NoError THEN c2 ELSE IfRest(c2.ps)

\* the operators of the binary levels of the grammar, by the function that
\* parses the level; the level "parsePrintStatement" is the loop
\* "while (match(TokenType::PLUS))" of the string form of print
LevelOperators ==
  "parseLogicalOr" :> {"OR"} @@ "parseLogicalAnd" :> {"AND"}
    @@ "parseEquality" :> {"EQUALS", "NOT_EQUALS"}
    @@ "parseComparison" :> {"LESS", "LESS_EQ", "GREATER", "GREATER_EQ"}
    @@ "parseTerm" :> {"PLUS", "MINUS"}
    @@ "parseFactor" :> {"MULTIPLY", "DIVIDE", "MODULO"}
    @@ "parsePrintStatement" :> {"PLUS"}

RECURSIVE parseBinary(_, _)
\* the function a level calls for its operands
Operand(level, ps) ==
  CASE level = "parseLogicalOr" -> parseBinary("parseLogicalAnd", ps)
    [] level = "parseLogicalAnd" -> parseBinary("parseEquality", ps)
    [] level = "parseEquality" -> parseBinary("parseComparison", ps)
    [] level = "parseComparison" -> parseBinary("parseTerm", ps)
    [] level = "parseTerm" -> parseBinary("parseFactor", ps)
    [] level = "parseFactor" -> PUnary(ps)
    [] level = "parsePrintStatement" -> PExpression(ps)

\* the loop of a level: while the current token is one of its operators,
\* the expression so far becomes the left operand of a BinaryExpression
BinaryRest(level, left, ps) ==
  IF ps.currentToken_.type \in LevelOperators[level] THEN
    LET r == POperand(level, PAdvance(ps))
    IN  IF r.err # NoError THEN r
        ELSE BinaryRest(level, BinaryExpression(ps.currentToken_.type, left, r.node), r.ps)
  ELSE Parsed(ps, left)

\* Parser::parseLogicalOr, parseLogicalAnd, parseEquality, parseComparison,
\* parseTerm and parseFactor
parseBinary(level, ps) ==
  LET r == Operand(level, ps)
  IN  IF r.err # NoError THEN r ELSE BinaryRest(level, r.node, r.ps)

\* Parser::parseAssignment (Parser::parseExpression returns its result)
parseAssignment(ps) ==
  LET l == parseBinary("parseLogicalOr", ps)
  IN  IF l.err # NoError \/ ~check(l.ps, "ASSIGN") THEN l
      ELSE LET r == PExpression(PAdvance(l.ps))
           IN  IF r.err # NoError THEN r
               ELSE Parsed(r.ps, BinaryExpression("ASSIGN", l.node, r.node))

\* Parser::parseExpressionList: its do-while loop; node is the vector
Expressions(acc, ps) ==
  LET r == PExpression(ps)
  IN  IF r.err # NoError THEN r
      ELSE IF check(r.ps, "COMMA")
        THEN Expressions(Append(acc, r.node), PAdvance(r.ps))
      ELSE Parsed(r.ps, Append(acc, r.node))

\* the arguments between '(' and ')', and the ')'
Arguments(ps, message) ==
  LET r == IF check(ps, "RPAREN") THEN Parsed(ps, <<>>) ELSE Expressions(<<>>, ps)
  IN  IF r.err # NoError THEN r
      ELSE LET c == PConsume(r.ps, "RPAREN", message)
           IN  IF c.err # NoError THEN c ELSE Parsed(c.ps, r.node)

\* Parser::parseArrayAccess and Parser::parsePropertyAccess after the node
\* access is built: a '[' or a '.' continues the chain
Suffixes(access, ps, first, second) ==
  IF check(ps, first) THEN
    (IF first = "LBRACKET" THEN PArrayAccess(access, PAdvance(ps))
     ELSE PPropertyAccess(access, PAdvance(ps)))
  ELSE IF check(ps, second) THEN
    (IF second = "LBRACKET" THEN PArrayAccess(access, PAdvance(ps))
     ELSE PPropertyAccess(access, PAdvance(ps)))
  ELSE Parsed(ps, access)

\* Parser::parseArrayAccess
parseArrayAccess(array, ps) ==
  LET i == PExpression(ps)
  IN  IF i.err # NoError THEN i
      ELSE LET c == PConsume(i.ps, "RBRACKET", "Expected ']' after array index")
           IN  IF c.err # NoError THEN c
               ELSE Suffixes(ArrayAccessExpression(array, i.node), c.ps, "LBRACKET", "DOT")

\* Parser::parsePropertyAccess
parsePropertyAccess(object, ps) ==
  IF ~check(ps, "IDENTIFIER") THEN ParseError(ps, "Expected property name after '.'.")
  ELSE Suffixes(PropertyAccessExpression(object, ps.currentToken_.value.s),
                PAdvance(ps), "DOT", "LBRACKET")

\* Parser::parsePrimary on an IDENTIFIER, after advance()
IdentifierPrimary(identifier, ps) ==
  IF check(ps, "LPAREN") THEN
    LET a == Arguments(PAdvance(ps), "Expected ')' after arguments")
    IN  IF a.err # NoError THEN a ELSE Parsed(a.ps, CallExpression(identifier, a.node))
  ELSE IF check(ps, "LBRACKET") THEN PArrayAccess(identifier, PAdvance(ps))
  ELSE IF check(ps, "DOT") THEN PPropertyAccess(identifier, PAdvance(ps))
  ELSE Parsed(ps, identifier)

\* Parser::parseArrayExpression
parseArrayExpression(ps) == Elements(ps, "Expected ']' after array elements")

\* Parser::parsePrimary
parsePrimary(ps) ==
  CASE check(ps, "TRUE") -> Parsed(PAdvance(ps), Literal(TokenBool(TRUE)))
    [] check(ps, "FALSE") -> Parsed(PAdvance(ps), Literal(TokenBool(FALSE)))
    [] check(ps, "NULL_TOKEN") -> Parsed(PAdvance(ps), Literal(TokenString(<<>>)))
    [] check(ps, "NUMBER") \/ check(ps, "STRING") ->
         Parsed(PAdvance(ps), Literal(ps.currentToken_.value))
    [] check(ps, "IDENTIFIER") ->
         IdentifierPrimary(Identifier(ps.currentToken_.value.s), PAdvance(ps))
    [] check(ps, "LPAREN") ->
         LET r == PExpression(PAdvance(ps))
         IN  IF r.err # NoError THEN r
             ELSE LET c == PConsume(r.ps, "RPAREN", "Expected ')' after expression")
                  IN  IF c.err # NoError THEN c ELSE Parsed(c.ps, r.node)
    [] check(ps, "LBRACKET") -> parseArrayExpression(PAdvance(ps))
    [] OTHER -> ParseError(ps, "Expected expression")

\* Parser::parseUnary
parseUnary(ps) ==
  IF check(ps, "BANG") \/ check(ps, "MINUS") THEN
    LET r == PUnary(PAdvance(ps))
    IN  IF r.err # NoError THEN r
        ELSE Parsed(r.ps, UnaryExpression(ps.currentToken_.type, r.node))
  ELSE parsePrimary(ps)

\* Parser::parsePrintStatement on a STRING: the literal, the concatenations
\* and, for print only, the ';'
PrintString(isPrintln, ps) ==
  LET r == BinaryRest("parsePrintStatement", Literal(ps.currentToken_.value),
                       PAdvance(ps))
  IN  IF r.err # NoError THEN r
      ELSE
        LET c == IF ~isPrintln
                 THEN PConsume(r.ps, "SEMICOLON", "Expected ';' after print statement")
                 ELSE Parsed(r.ps, NoNode)
        IN  IF c.err # NoError THEN c ELSE Parsed(c.ps, PrintStatement(isPrintln, <<r.node>>))

\* Parser::parsePrintStatement on anything else: '(' arguments ')' ';'
PrintArgumentList(isPrintln, ps) ==
  LET c == PConsume(ps, "LPAREN", "Expected '(' or string after print")
  IN  IF c.err # NoError THEN c
      ELSE LET a == Terminated(Arguments(c.ps, "Expected ')' after print arguments"),
                               "Expected ';' after print statement")
           IN  IF a.err # NoError THEN a ELSE Parsed(a.ps, PrintStatement(isPrintln, a.node))

\* Parser::parsePrintStatement
parsePrintStatement(ps) ==
  IF check(PAdvance(ps), "STRING")
    THEN PrintString(check(ps, "PRINTLN"), PAdvance(ps))
  ELSE PrintArgumentList(check(ps, "PRINTLN"), PAdvance(ps))

\* Parser::parseReturnStatement
parseReturnStatement(ps) ==
  LET c == PConsume(ps, "RETURN", "Expected 'return' keyword")
  IN  IF c.err # NoError THEN c
      ELSE LET r == Terminated(IF ~check(c.ps, "SEMICOLON") THEN PExpression(c.ps)
                               ELSE Parsed(c.ps, NoNode),
                               "Expected ';' after return statement")
           IN  IF r.err # NoError THEN r ELSE Parsed(r.ps, ReturnStatement(r.node))

\* Parser::parseBreakStatement
parseBreakStatement(ps) ==
  LET r == Terminated(PConsume(ps, "BREAK", "Expected 'break' keyword"),
                      "Expected ';' after 'break'")
  IN  IF r.err # NoError THEN r ELSE Parsed(r.ps, BreakStatement)

\* Parser::parseExpressionStatement
parseExpressionStatement(ps) ==
  LET r == Terminated(PExpression(ps), "Expected ';' after expression")
  IN  IF r.err # NoError THEN r ELSE Parsed(r.ps, ExpressionStatement(r.node))

\* Parser::parseStatement
parseStatement(ps) ==
  CASE check(ps, "LBRACE") -> PBlock(ps)
    [] check(ps, "VAR") -> parseVariableDeclaration(ps)
    [] check(ps, "FUNC") -> parseFunctionDeclaration(ps)
    [] check(ps, "LOOP") -> parseLoopStatement(ps)
    [] check(ps, "IF") -> PIfStatement(ps)
    [] check(ps, "PRINT") \/ check(ps, "PRINTLN") -> parsePrintStatement(ps)
    [] check(ps, "RETURN") -> parseReturnStatement(ps)
    [] check(ps, "BREAK") -> parseBreakStatement(ps)
    [] OTHER -> parseExpressionStatement(ps)

ParseRun(req) ==
  CASE req.fn = "advance" -> Parser_advance(req.ps)
    [] req.fn = "consume" -> consume(req.ps, req.expectedType, req.errorMessage)
    [] req.fn = "Operand" -> Operand(req.level, req.ps)
    [] req.fn = "parseUnary" -> parseUnary(req.ps)
    [] req.fn = "parseExpression" -> parseAssignment(req.ps)
    [] req.fn = "parseStatement" -> parseStatement(req.ps)
    [] req.fn = "Statements" -> Statements(req.stmts, req.block, req.ps)
    [] req.fn = "parseBlock" -> parseBlock(req.ps)
    [] req.fn = "parseIfStatement" -> parseIfStatement(req.ps)
    [] req.fn = "parseArrayAccess" -> parseArrayAccess(req.node, req.ps)
    [] req.fn = "parsePropertyAccess" -> parsePropertyAccess(req.node, req.ps)
    [] req.fn = "thrown" -> Parsed(req.ps, NoNode)

(***************************************************************************)
(* Programs.  These source files are given by the tree Parser::parse       *)
(* builds for them, and ProgramText below writes the text the file holds.  *)
(* The files of Sources below are given as text.                           *)
(***************************************************************************)
Num(n) == Literal(TokenDouble(DblOfInt(n)))
Str(chars) == Literal(TokenString(chars))
Bool(b) == Literal(TokenBool(b))
Var(n) == Identifier(<<n>>)
\* l = r;
Assign(l, r) == ExpressionStatement(BinaryExpression("ASSIGN", l, r))
VarDecl(n, e) == VariableDeclaration(<<n>>, e)
Func(n, params, stmts) == FunctionDeclaration(<<n>>, params, BlockStatement(stmts))
\* print(e);  and  println(e);
Out(e) == PrintStatement(FALSE, <<e>>)
Outln(e) == PrintStatement(TRUE, <<e>>)
If(c, stmts) == IfStatement(c, BlockStatement(stmts), NoNode)
\* loop (var n = 0; n op to; n = incr) { stmts }
For(n, op, to, incr, stmts) ==
  LoopStatement(VarDecl(n, Num(0)), BinaryExpression(op, Var(n), to),
                BinaryExpression("ASSIGN", Var(n), incr), BlockStatement(stmts))
\* n + 1
Succ(n) == BinaryExpression("PLUS", Var(n), Num(1))

\* var s = 0; loop (var i = 0; i <= n; i = i + 1) { s = s + i; } println(s);
SumProgram(n) ==
  BlockStatement(
    <<VarDecl("s", Num(0)),
      For("i", "LESS_EQ", Num(n), Succ("i"),
          <<Assign(Var("s"), BinaryExpression("PLUS", Var("s"), Var("i")))>>),
      Outln(Var("s"))>>)

\* Scenario C with the break at i == k:
\* var s = 0; loop (var i = 0; i < 100; i = i + 1) { if (i == k) { break; } s = s + i; }
\* println(s);
ScenarioC(k) ==
  BlockStatement(
    <<VarDecl("s", Num(0)),
      For("i", "LESS", Num(100), Succ("i"),
          <<If(BinaryExpression("EQUALS", Var("i"), Num(k)), <<BreakStatement>>),
            Assign(Var("s"), BinaryExpression("PLUS", Var("s"), Var("i")))>>),
      Outln(Var("s"))>>)

\* the right operands m() and u
Rights == {CallExpression(Var("m"), <<>>), Var("u")}

\* var c = 0; func m() { c = 1; return true; } var a = L op R;
ShortCircuit(op, l, right) ==
  BlockStatement(
    <<VarDecl("c", Num(0)),
      Func("m", <<>>, <<Assign(Var("c"), Num(1)), ReturnStatement(Bool(TRUE))>>),
      VarDecl("a", BinaryExpression(op, Bool(l), right))>>)

\* the programs that end in an exception or do not end:
\*   "undefined"  println(u);
\*   "arity"      func f(a) { return a; } f();
\*   "target"     1 = 2;
\*   "break"      break;
\*   "bodiless"   func f();     the declaration without a body leaves body null
\*   "endless"    loop (var i = 0; i == i; i = i + 1) { }
FaultProgram(kind) ==
  BlockStatement(
    IF kind = "undefined" THEN <<Outln(Var("u"))>>
    ELSE IF kind = "arity"
      THEN <<Func("f", <<(<<"a">>)>>, <<ReturnStatement(Var("a"))>>),
             ExpressionStatement(CallExpression(Var("f"), <<>>))>>
    ELSE IF kind = "target" THEN <<Assign(Num(1), Num(2))>>
    ELSE IF kind = "break" THEN <<BreakStatement>>
    ELSE IF kind = "bodiless" THEN <<FunctionDeclaration(<<"f">>, <<>>, NoNode)>>
    ELSE <<For("i", "EQUALS", Var("i"), Succ("i"), <<>>)>>)

\* func p(v) { print("+"); return v + 1; }
\* loop (var i = 0; i < 2; i = p(i)) {
\*   loop (var j = 0; j < 3; j = p(j)) { if (j == k) { { break; } print("x"); } print("a"); }
\*   print("|");
\* }
\* println("end");
BreakProgram(k) ==
  BlockStatement(
    <<Func("p", <<(<<"v">>)>>, <<Out(Str(<<"+">>)), ReturnStatement(Succ("v"))>>),
      For("i", "LESS", Num(2), CallExpression(Var("p"), <<Var("i")>>),
          <<For("j", "LESS", Num(3), CallExpression(Var("p"), <<Var("j")>>),
                <<If(BinaryExpression("EQUALS", Var("j"), Num(k)),
                     <<BlockStatement(<<BreakStatement>>), Out(Str(<<"x">>))>>),
                  Out(Str(<<"a">>))>>),
            Out(Str(<<"|">>))>>),
      Outln(Str(<<"e", "n", "d">>))>>)

\* func f(k) {
\*   loop (var i = 0; i < 3; i = i + 1) { if (i == k) { { return i + 10; } } print("a"); }
\*   print("z");
\* }
\* var v = f(K); println(v);
ReturnProgram(k) ==
  BlockStatement(
    <<Func("f", <<(<<"k">>)>>,
           <<For("i", "LESS", Num(3), Succ("i"),
                 <<If(BinaryExpression("EQUALS", Var("i"), Var("k")),
                      <<BlockStatement(
                          <<ReturnStatement(
                              BinaryExpression("PLUS", Var("i"), Num(10)))>>)>>),
                   Out(Str(<<"a">>))>>),
             Out(Str(<<"z">>))>>),
      VarDecl("v", CallExpression(Var("f"), <<Num(k)>>)),
      Outln(Var("v"))>>)

ShadowKinds == {"block", "if", "else", "function", "loop"}

\* var x = 1; S println(x);  where S declares var x = 2 inside
\*   a block:          { var x = 2; }
\*   an if branch:     if (true) { var x = 2; }
\*   an else branch:   if (false) { } else { var x = 2; }
\*   a function body:  func f() { var x = 2; } f();
\*   a loop body:      loop (var i = 0; i < 1; i = i + 1) { var x = 2; }
ShadowProgram(kind) ==
  BlockStatement(
    <<VarDecl("x", Num(1))>>
      \o (IF kind = "block" THEN <<BlockStatement(<<VarDecl("x", Num(2))>>)>>
          ELSE IF kind = "if" THEN <<If(Bool(TRUE), <<VarDecl("x", Num(2))>>)>>
          ELSE IF kind = "else"
            THEN <<IfStatement(Bool(FALSE), BlockStatement(<<>>),
                               BlockStatement(<<VarDecl("x", Num(2))>>))>>
          ELSE IF kind = "function"
            THEN <<Func("f", <<>>, <<VarDecl("x", Num(2))>>),
                   ExpressionStatement(CallExpression(Var("f"), <<>>))>>
          ELSE <<For("i", "LESS", Num(1), Succ("i"), <<VarDecl("x", Num(2))>>)>>)
      \o <<Outln(Var("x"))>>)

\* loop (var x = 0; x < 3; x = x + 1) { var x = 10; print("a"); }
ShadowLoopHeader ==
  BlockStatement(
    <<For("x", "LESS", Num(3), Succ("x"), <<VarDecl("x", Num(10)), Out(Str(<<"a">>))>>)>>)

\* var x = "g";
\* func s(a, b) { print(a); print(b); print(x); x = "m"; }
\* func c() { var x = "l"; s("1", "2"); print(x); }      (var x = "l"; only when local)
\* c(); println(x);
DynamicScope(local) ==
  BlockStatement(
    <<VarDecl("x", Str(<<"g">>)),
      Func("s", <<(<<"a">>), (<<"b">>)>>,
           <<Out(Var("a")), Out(Var("b")), Out(Var("x")), Assign(Var("x"), Str(<<"m">>))>>),
      Func("c", <<>>,
           (IF local THEN <<VarDecl("x", Str(<<"l">>))>> ELSE <<>>)
             \o <<ExpressionStatement(
                    CallExpression(Var("s"), <<Str(<<"1">>), Str(<<"2">>)>>)),
                  Out(Var("x"))>>),
      ExpressionStatement(CallExpression(Var("c"), <<>>)),
      Outln(Var("x"))>>)

\* func m() { var s = "v"; func i() { return s; } return i; } var f = m(); println(f());
ClosureProgram ==
  BlockStatement(
    <<Func("m", <<>>,
           <<VarDecl("s", Str(<<"v">>)),
             Func("i", <<>>, <<ReturnStatement(Var("s"))>>),
             ReturnStatement(Var("i"))>>),
      VarDecl("f", CallExpression(Var("m"), <<>>)),
      Outln(CallExpression(Var("f"), <<>>))>>)

\* the initializers 5, 2.5, true, "s" and none (var x;)
Scalars == {Num(5), Literal(TokenDouble(Dbl(5, 2))), Bool(TRUE), Str(<<"s">>), NoNode}

\* var x = S; x[i] = 7;
PromoteProgram(scalar, i) ==
  BlockStatement(
    <<VarDecl("x", scalar), Assign(ArrayAccessExpression(Var("x"), Num(i)), Num(7))>>)

\* the initializers of x: those of Scalars and the array literal [1, 2]
Inits == Scalars \cup {ArrayExpression(<<Num(1), Num(2)>>)}

\* var x = I; x[-i] = 7;
NegativeIndex(init, i) ==
  BlockStatement(
    <<VarDecl("x", init),
      Assign(ArrayAccessExpression(Var("x"), UnaryExpression("MINUS", Num(i))), Num(7))>>)

\* the indices assigned to: inside [1, 2, 3], just past it, Scenario D's 5 and
\* the indices around the cap
Indices == (0..(MaxN + 1)) \cup {5, 1000, 1001, 1002}

\* var a = [1, 2, 3]; a[i] = 99; println(a.length); println(a[4]);
GrowProgram(i) ==
  BlockStatement(
    <<VarDecl("a", ArrayExpression(<<Num(1), Num(2), Num(3)>>)),
      Assign(ArrayAccessExpression(Var("a"), Num(i)), Num(99)),
      Outln(PropertyAccessExpression(Var("a"), <<"l", "e", "n", "g", "t", "h">>)),
      Outln(ArrayAccessExpression(Var("a"), Num(4)))>>)

\* the indices assigned to in the array of 1024 elements
LongIndices == {1000, 1001, 1023, 1024, 1025}

\* var a = [1]; loop (var i = 0; i < 10; i = i + 1) { a = a + a; } a[j] = 7;
LongArrayProgram(j) ==
  BlockStatement(
    <<VarDecl("a", ArrayExpression(<<Num(1)>>)),
      For("i", "LESS", Num(10), Succ("i"),
          <<Assign(Var("a"), BinaryExpression("PLUS", Var("a"), Var("a")))>>),
      Assign(ArrayAccessExpression(Var("a"), Num(j)), Num(7))>>)

\* the operand initializers: those of Inits, false and the string "[1, 2]"
Operands == Inits \cup {Bool(FALSE), Str(<<"[", "1", ",", " ", "2", "]">>)}

\* the initializer binding the Integer n: n, or 0 - m for n = -m
IntInit(n) == IF n < 0 THEN BinaryExpression("MINUS", Num(0), Num(-n)) ELSE Num(n)

\* var a = L; var b = R; var r = a op b;     (var a; when L is none)
BinaryProgram(op, l, r) ==
  BlockStatement(
    <<VarDecl("a", l), VarDecl("b", r),
      VarDecl("r", BinaryExpression(op, Var("a"), Var("b")))>>)

\* the arithmetic operators
ArithmeticOps == {"PLUS", "MINUS", "MULTIPLY", "DIVIDE", "MODULO"}

\* the ways b becomes a copy of a
CopyKinds == {"declare", "assign", "argument"}

\* var a = [1, 2]; C b[i] = 9; a[0] = 8;   where C makes b a copy of a by
\*   a declaration:  var b = a;
\*   an assignment:  var b = 0; b = a;
\*   an argument:    func f(b) { b[i] = 9; return b; } var b = f(a);
\* (in the last case b[i] = 9; is the one inside f)
CopyProgram(kind, i) ==
  LET store == Assign(ArrayAccessExpression(Var("b"), Num(i)), Num(9))
  IN  BlockStatement(
        <<VarDecl("a", ArrayExpression(<<Num(1), Num(2)>>))>>
          \o (IF kind = "declare" THEN <<VarDecl("b", Var("a")), store>>
              ELSE IF kind = "assign"
                THEN <<VarDecl("b", Num(0)), Assign(Var("b"), Var("a")), store>>
              ELSE <<Func("f", <<(<<"b">>)>>, <<store, ReturnStatement(Var("b"))>>),
                     VarDecl("b", CallExpression(Var("f"), <<Var("a")>>))>>)
          \o <<Assign(ArrayAccessExpression(Var("a"), Num(0)), Num(8))>>)

(***************************************************************************)
(* Source texts.  A text is the sequence of its characters; the lexer and  *)
(* the parser of the model run on it as they run on the file's contents.   *)
(***************************************************************************)
\* programs the grammar accepts
Complete ==
    \* println(1);
  { <<"p", "r", "i", "n", "t", "l", "n", "(", "1", ")", ";">>,
    \* var x = 5; println(x + 2);
    <<"v", "a", "r", " ", "x", " ", "=", " ", "5", ";", " ", "p", "r", "i",
        "n", "t", "l", "n", "(", "x", " ", "+", " ", "2", ")", ";">> }

\* tokens that begin or continue no statement: a name without its ';', a
\* closing brace or parenthesis, a number, a character the lexer knows
\* nothing of and an unterminated string literal (both ERROR tokens)
Strays ==
    \* x
  { <<"x">>,
    \* }
    <<"}">>,
    \* )
    <<")">>,
    \* 7
    <<"7">>,
    \* @
    <<"@">>,
    \* "abc
    <<"\"", "a", "b", "c">> }

\* a stray token alone, after a complete program and before one
StraySources ==
  Strays \cup {c \o <<" ">> \o s : c \in Complete, s \in Strays}
    \cup {s \o <<" ">> \o c : s \in Strays, c \in Complete}

\* a suffix after a call and a call after an index
MixedChains ==
    \* f()[0];
  { <<"f", "(", ")", "[", "0", "]", ";">>,
    \* f().length;
    <<"f", "(", ")", ".", "l", "e", "n", "g", "t", "h", ";">>,
    \* a[0](1);
    <<"a", "[", "0", "]", "(", "1", ")", ";">>,
    \* f()();
    <<"f", "(", ")", "(", ")", ";">> }

\* an index or a property after an array literal, a parenthesised
\* expression and a string literal
OtherPrimaries ==
    \* [1,2][0];
  { <<"[", "1", ",", "2", "]", "[", "0", "]", ";">>,
    \* (x).length;
    <<"(", "x", ")", ".", "l", "e", "n", "g", "t", "h", ";">>,
    \* "abc".length;
    <<"\"", "a", "b", "c", "\"", ".", "l", "e", "n", "g", "t", "h", ";">> }

\* calls, and indexes and properties after a name
IdentifierChains ==
    \* f(1);
  { <<"f", "(", "1", ")", ";">>,
    \* a[0][1];
    <<"a", "[", "0", "]", "[", "1", "]", ";">>,
    \* a[1].length;
    <<"a", "[", "1", "]", ".", "l", "e", "n", "g", "t", "h", ";">>,
    \* a.length[0];
    <<"a", ".", "l", "e", "n", "g", "t", "h", "[", "0", "]", ";">> }

\* println "lit" (+ EXPR)* without and with its ';', last and followed by
\* further statements
PrintlnStrings ==
    \* println "a"
  { <<"p", "r", "i", "n", "t", "l", "n", " ", "\"", "a", "\"">>,
    \* println "a";
    <<"p", "r", "i", "n", "t", "l", "n", " ", "\"", "a", "\"", ";">>,
    \* println "a" + 1
    <<"p", "r", "i", "n", "t", "l", "n", " ", "\"", "a", "\"", " ", "+", " ",
        "1">>,
    \* println "a" + 1;
    <<"p", "r", "i", "n", "t", "l", "n", " ", "\"", "a", "\"", " ", "+", " ",
        "1", ";">>,
    \* println "a" println(1);
    <<"p", "r", "i", "n", "t", "l", "n", " ", "\"", "a", "\"", " ", "p", "r",
        "i", "n", "t", "l", "n", "(", "1", ")", ";">>,
    \* println "a"; println(1);
    <<"p", "r", "i", "n", "t", "l", "n", " ", "\"", "a", "\"", ";", " ", "p",
        "r", "i", "n", "t", "l", "n", "(", "1", ")", ";">>,
    \* println(1); println "a"
    <<"p", "r", "i", "n", "t", "l", "n", "(", "1", ")", ";", " ", "p", "r",
        "i", "n", "t", "l", "n", " ", "\"", "a", "\"">>,
    \* println(1); println "a";
    <<"p", "r", "i", "n", "t", "l", "n", "(", "1", ")", ";", " ", "p", "r",
        "i", "n", "t", "l", "n", " ", "\"", "a", "\"", ";">>,
    \* println "a" + 1 x;
    <<"p", "r", "i", "n", "t", "l", "n", " ", "\"", "a", "\"", " ", "+", " ",
        "1", " ", "x", ";">>,
    \* println "a" + 1; x;
    <<"p", "r", "i", "n", "t", "l", "n", " ", "\"", "a", "\"", " ", "+", " ",
        "1", ";", " ", "x", ";">> }

\* print "lit" (+ EXPR)* with its ';'
PrintStrings ==
    \* print "a";
  { <<"p", "r", "i", "n", "t", " ", "\"", "a", "\"", ";">>,
    \* print "a" + 1;
    <<"p", "r", "i", "n", "t", " ", "\"", "a", "\"", " ", "+", " ", "1", ";">>,
    \* print "a"; println(1);
    <<"p", "r", "i", "n", "t", " ", "\"", "a", "\"", ";", " ", "p", "r", "i",
        "n", "t", "l", "n", "(", "1", ")", ";">>,
    \* println(1); print "a";
    <<"p", "r", "i", "n", "t", "l", "n", "(", "1", ")", ";", " ", "p", "r",
        "i", "n", "t", " ", "\"", "a", "\"", ";">> }

\* print "lit" (+ EXPR)* without its ';'
PrintStringsOpen ==
    \* print "a"
  { <<"p", "r", "i", "n", "t", " ", "\"", "a", "\"">>,
    \* print "a" + 1
    <<"p", "r", "i", "n", "t", " ", "\"", "a", "\"", " ", "+", " ", "1">>,
    \* print "a" println(1);
    <<"p", "r", "i", "n", "t", " ", "\"", "a", "\"", " ", "p", "r", "i", "n",
        "t", "l", "n", "(", "1", ")", ";">> }

\* texts of several lines: newlines in whitespace, in a comment and in
\* string literals
Lines ==
    \* x\n  y
  { <<"x", "\n", " ", " ", "y">>,
    \* // c\nx = 1;
    <<"/", "/", " ", "c", "\n", "x", " ", "=", " ", "1", ";">>,
    \* loop(x\n<= y
    <<"l", "o", "o", "p", "(", "x", "\n", "<", "=", " ", "y">>,
    \* x "ab" y
    <<"x", " ", "\"", "a", "b", "\"", " ", "y">>,
    \* x = 10;\ny != 2
    <<"x", " ", "=", " ", "1", "0", ";", "\n", "y", " ", "!", "=", " ", "2">>,
    \* "a\nb"
    <<"\"", "a", "\n", "b", "\"">>,
    \* "a\nb" x
    <<"\"", "a", "\n", "b", "\"", " ", "x">>,
    \* x "a\n\nb";\ny
    <<"x", " ", "\"", "a", "\n", "\n", "b", "\"", ";", "\n", "y">>,
    \* print("a\nb") x
    <<"p", "r", "i", "n", "t", "(", "\"", "a", "\n", "b", "\"", ")", " ", "x">>,
    \* x\n"a\nb
    <<"x", "\n", "\"", "a", "\n", "b">> }

\* a break outside any loop and a return outside any function, at top level
\* and inside blocks and if-branches; a statement follows
Orphans ==
    \* break; println(1);
  { <<"b", "r", "e", "a", "k", ";", " ", "p", "r", "i", "n", "t", "l", "n",
        "(", "1", ")", ";">>,
    \* return 1; println(1);
    <<"r", "e", "t", "u", "r", "n", " ", "1", ";", " ", "p", "r", "i", "n",
        "t", "l", "n", "(", "1", ")", ";">>,
    \* { break; } println(1);
    <<"{", " ", "b", "r", "e", "a", "k", ";", " ", "}", " ", "p", "r", "i",
        "n", "t", "l", "n", "(", "1", ")", ";">>,
    \* { { return 2; } } println(1);
    <<"{", " ", "{", " ", "r", "e", "t", "u", "r", "n", " ", "2", ";", " ",
        "}", " ", "}", " ", "p", "r", "i", "n", "t", "l", "n", "(", "1", ")",
        ";">>,
    \* if (true) { break; } println(1);
    <<"i", "f", " ", "(", "t", "r", "u", "e", ")", " ", "{", " ", "b", "r",
        "e", "a", "k", ";", " ", "}", " ", "p", "r", "i", "n", "t", "l", "n",
        "(", "1", ")", ";">>,
    \* if (1 < 2) { { return; } } println(1);
    <<"i", "f", " ", "(", "1", " ", "<", " ", "2", ")", " ", "{", " ", "{",
        " ", "r", "e", "t", "u", "r", "n", ";", " ", "}", " ", "}", " ", "p",
        "r", "i", "n", "t", "l", "n", "(", "1", ")", ";">> }

\* statements that end normally, by a break their loop catches or by a
\* return their call catches, each with an inner scope that declares b anew;
\* decl is the function declaration the statement needs
Enclosed ==
    \* loop (var i = 0; i < 2; i = i + 1) { var b = 7; break; }
  { [decl |-> <<>>,
     stmt |-> <<"l", "o", "o", "p", " ", "(", "v", "a", "r", " ", "i", " ",
            "=", " ", "0", ";", " ", "i", " ", "<", " ", "2", ";", " ", "i",
            " ", "=", " ", "i", " ", "+", " ", "1", ")", " ", "{", " ", "v",
            "a", "r", " ", "b", " ", "=", " ", "7", ";", " ", "b", "r", "e",
            "a", "k", ";", " ", "}">>],
    \* loop (var i = 0; i < 2; i = i + 1) { var b = 7; if (i == 1) { break; } }
    [decl |-> <<>>,
     stmt |-> <<"l", "o", "o", "p", " ", "(", "v", "a", "r", " ", "i", " ",
            "=", " ", "0", ";", " ", "i", " ", "<", " ", "2", ";", " ", "i",
            " ", "=", " ", "i", " ", "+", " ", "1", ")", " ", "{", " ", "v",
            "a", "r", " ", "b", " ", "=", " ", "7", ";", " ", "i", "f", " ",
            "(", "i", " ", "=", "=", " ", "1", ")", " ", "{", " ", "b", "r",
            "e", "a", "k", ";", " ", "}", " ", "}">>],
    \* loop (var i = 0; i < 1; i = i + 1) { var b = 7; }
    [decl |-> <<>>,
     stmt |-> <<"l", "o", "o", "p", " ", "(", "v", "a", "r", " ", "i", " ",
            "=", " ", "0", ";", " ", "i", " ", "<", " ", "1", ";", " ", "i",
            " ", "=", " ", "i", " ", "+", " ", "1", ")", " ", "{", " ", "v",
            "a", "r", " ", "b", " ", "=", " ", "7", ";", " ", "}">>],
    \* func f() { var b = 7; return 1; } ... f();
    [decl |-> <<"f", "u", "n", "c", " ", "f", "(", ")", " ", "{", " ", "v",
            "a", "r", " ", "b", " ", "=", " ", "7", ";", " ", "r", "e", "t",
            "u", "r", "n", " ", "1", ";", " ", "}", " ">>,
     stmt |-> <<"f", "(", ")", ";">>],
    \* func f() { loop (var i = 0; i < 2; i = i + 1) { { var b = 7; return i; } } } ... f();
    [decl |-> <<"f", "u", "n", "c", " ", "f", "(", ")", " ", "{", " ", "l",
            "o", "o", "p", " ", "(", "v", "a", "r", " ", "i", " ", "=", " ",
            "0", ";", " ", "i", " ", "<", " ", "2", ";", " ", "i", " ", "=",
            " ", "i", " ", "+", " ", "1", ")", " ", "{", " ", "{", " ", "v",
            "a", "r", " ", "b", " ", "=", " ", "7", ";", " ", "r", "e", "t",
            "u", "r", "n", " ", "i", ";", " ", "}", " ", "}", " ", "}", " ">>,
     stmt |-> <<"f", "(", ")", ";">>],
    \* func f() { var b = 7; } ... f();
    [decl |-> <<"f", "u", "n", "c", " ", "f", "(", ")", " ", "{", " ", "v",
            "a", "r", " ", "b", " ", "=", " ", "7", ";", " ", "}", " ">>,
     stmt |-> <<"f", "(", ")", ";">>],
    \* { var b = 7; }
    [decl |-> <<>>,
     stmt |-> <<"{", " ", "v", "a", "r", " ", "b", " ", "=", " ", "7", ";",
            " ", "}">>],
    \* if (true) { var b = 7; }
    [decl |-> <<>>,
     stmt |-> <<"i", "f", " ", "(", "t", "r", "u", "e", ")", " ", "{", " ",
            "v", "a", "r", " ", "b", " ", "=", " ", "7", ";", " ", "}">>],
    \* if (false) { } else { var b = 7; }
    [decl |-> <<>>,
     stmt |-> <<"i", "f", " ", "(", "f", "a", "l", "s", "e", ")", " ", "{",
            " ", "}", " ", "e", "l", "s", "e", " ", "{", " ", "v", "a", "r",
            " ", "b", " ", "=", " ", "7", ";", " ", "}">>] }

\* where the statement stands: at top level, in a block, in a function body
\* and in a loop body
Enclosing ==
    \* ...
  { [open |-> <<>>,
     close |-> <<>>],
    \* { ...  }
    [open |-> <<"{", " ">>,
     close |-> <<" ", "}">>],
    \* func g() { ...  } g();
    [open |-> <<"f", "u", "n", "c", " ", "g", "(", ")", " ", "{", " ">>,
     close |-> <<" ", "}", " ", "g", "(", ")", ";">>],
    \* loop (var k = 0; k < 1; k = k + 1) { ...  }
    [open |-> <<"l", "o", "o", "p", " ", "(", "v", "a", "r", " ", "k", " ",
            "=", " ", "0", ";", " ", "k", " ", "<", " ", "1", ";", " ", "k",
            " ", "=", " ", "k", " ", "+", " ", "1", ")", " ", "{", " ">>,
     close |-> <<" ", "}">>] }

\* var b = 1;  and  var a = b; println(a);
Before == <<"v", "a", "r", " ", "b", " ", "=", " ", "1", ";", " ">>
After ==
  <<" ", "v", "a", "r", " ", "a", " ", "=", " ", "b", ";", " ", "p", "r",
    "i", "n", "t", "l", "n", "(", "a", ")", ";">>

\* decl open var b = 1; stmt var a = b; println(a); close
Restoring ==
  {s.decl \o c.open \o Before \o s.stmt \o After \o c.close : s \in Enclosed, c \in Enclosing}

\* loop followed at once by its parenthesis, the source ending there, going on, or holding only blanks and a comment after it; and the spaced form
LoopHeads ==
    \* loop(
  { <<"l", "o", "o", "p", "(">>,
    \* loop( 
    <<"l", "o", "o", "p", "(", " ">>,
    \* loop(\n// c
    <<"l", "o", "o", "p", "(", "\n", "/", "/", " ", "c">>,
    \* loop (
    <<"l", "o", "o", "p", " ", "(">>,
    \* loop(1 < 0) { }
    <<"l", "o", "o", "p", "(", "1", " ", "<", " ", "0", ")", " ", "{", " ",
        "}">>,
    \* loop (1 < 0) { }
    <<"l", "o", "o", "p", " ", "(", "1", " ", "<", " ", "0", ")", " ", "{",
        " ", "}">>,
    \* x; loop(
    <<"x", ";", " ", "l", "o", "o", "p", "(">> }

\* function declarations without a body, alone, before another statement and inside a block, and one with a body
Forward ==
    \* func f();
  { <<"f", "u", "n", "c", " ", "f", "(", ")", ";">>,
    \* func f(a, b); println(1);
    <<"f", "u", "n", "c", " ", "f", "(", "a", ",", " ", "b", ")", ";", " ",
        "p", "r", "i", "n", "t", "l", "n", "(", "1", ")", ";">>,
    \* { func g(); } println(1);
    <<"{", " ", "f", "u", "n", "c", " ", "g", "(", ")", ";", " ", "}", " ",
        "p", "r", "i", "n", "t", "l", "n", "(", "1", ")", ";">>,
    \* func f() { } f(); println(1);
    <<"f", "u", "n", "c", " ", "f", "(", ")", " ", "{", " ", "}", " ", "f",
        "(", ")", ";", " ", "p", "r", "i", "n", "t", "l", "n", "(", "1", ")",
        ";">> }

\* assignments whose right side or index calls t, which writes t: the calls are counted in the output
Effects ==
    \* func t() { print("t"); return 1; } var x = 0; x = t(); println(x);
  { <<"f", "u", "n", "c", " ", "t", "(", ")", " ", "{", " ", "p", "r", "i",
        "n", "t", "(", "\"", "t", "\"", ")", ";", " ", "r", "e", "t", "u", "r",
        "n", " ", "1", ";", " ", "}", " ", "v", "a", "r", " ", "x", " ", "=",
        " ", "0", ";", " ", "x", " ", "=", " ", "t", "(", ")", ";", " ", "p",
        "r", "i", "n", "t", "l", "n", "(", "x", ")", ";">>,
    \* func t() { print("t"); return 1; } var x = 0; x = t() + 1; println(x);
    <<"f", "u", "n", "c", " ", "t", "(", ")", " ", "{", " ", "p", "r", "i",
        "n", "t", "(", "\"", "t", "\"", ")", ";", " ", "r", "e", "t", "u", "r",
        "n", " ", "1", ";", " ", "}", " ", "v", "a", "r", " ", "x", " ", "=",
        " ", "0", ";", " ", "x", " ", "=", " ", "t", "(", ")", " ", "+", " ",
        "1", ";", " ", "p", "r", "i", "n", "t", "l", "n", "(", "x", ")", ";">>,
    \* func t() { print("t"); return 1; } var x = 0; x = 1 + t(); println(x);
    <<"f", "u", "n", "c", " ", "t", "(", ")", " ", "{", " ", "p", "r", "i",
        "n", "t", "(", "\"", "t", "\"", ")", ";", " ", "r", "e", "t", "u", "r",
        "n", " ", "1", ";", " ", "}", " ", "v", "a", "r", " ", "x", " ", "=",
        " ", "0", ";", " ", "x", " ", "=", " ", "1", " ", "+", " ", "t", "(",
        ")", ";", " ", "p", "r", "i", "n", "t", "l", "n", "(", "x", ")", ";">>,
    \* func t() { print("t"); return 0; } var a = [1, 2]; a[t()] = 5; println(a[0]);
    <<"f", "u", "n", "c", " ", "t", "(", ")", " ", "{", " ", "p", "r", "i",
        "n", "t", "(", "\"", "t", "\"", ")", ";", " ", "r", "e", "t", "u", "r",
        "n", " ", "0", ";", " ", "}", " ", "v", "a", "r", " ", "a", " ", "=",
        " ", "[", "1", ",", " ", "2", "]", ";", " ", "a", "[", "t", "(", ")",
        "]", " ", "=", " ", "5", ";", " ", "p", "r", "i", "n", "t", "l", "n",
        "(", "a", "[", "0", "]", ")", ";">>,
    \* func t() { print("t"); return 1; } var x = 0; x = t() * 2; println(x);
    <<"f", "u", "n", "c", " ", "t", "(", ")", " ", "{", " ", "p", "r", "i",
        "n", "t", "(", "\"", "t", "\"", ")", ";", " ", "r", "e", "t", "u", "r",
        "n", " ", "1", ";", " ", "}", " ", "v", "a", "r", " ", "x", " ", "=",
        " ", "0", ";", " ", "x", " ", "=", " ", "t", "(", ")", " ", "*", " ",
        "2", ";", " ", "p", "r", "i", "n", "t", "l", "n", "(", "x", ")", ";">> }

\* y is declared with the value of E, x is assigned E and z is declared with the value of that assignment
Stores ==
    \* var x = 0; var y = 5; var z = x = 5; println(x, y, z);
  { <<"v", "a", "r", " ", "x", " ", "=", " ", "0", ";", " ", "v", "a", "r",
        " ", "y", " ", "=", " ", "5", ";", " ", "v", "a", "r", " ", "z", " ",
        "=", " ", "x", " ", "=", " ", "5", ";", " ", "p", "r", "i", "n", "t",
        "l", "n", "(", "x", ",", " ", "y", ",", " ", "z", ")", ";">>,
    \* var x = 0; var y = 1 + 1; var z = x = 1 + 1; println(x, y, z);
    <<"v", "a", "r", " ", "x", " ", "=", " ", "0", ";", " ", "v", "a", "r",
        " ", "y", " ", "=", " ", "1", " ", "+", " ", "1", ";", " ", "v", "a",
        "r", " ", "z", " ", "=", " ", "x", " ", "=", " ", "1", " ", "+", " ",
        "1", ";", " ", "p", "r", "i", "n", "t", "l", "n", "(", "x", ",", " ",
        "y", ",", " ", "z", ")", ";">>,
    \* var x = 0; var y = "a" + 1; var z = x = "a" + 1; println(x, y, z);
    <<"v", "a", "r", " ", "x", " ", "=", " ", "0", ";", " ", "v", "a", "r",
        " ", "y", " ", "=", " ", "\"", "a", "\"", " ", "+", " ", "1", ";", " ",
        "v", "a", "r", " ", "z", " ", "=", " ", "x", " ", "=", " ", "\"", "a",
        "\"", " ", "+", " ", "1", ";", " ", "p", "r", "i", "n", "t", "l", "n",
        "(", "x", ",", " ", "y", ",", " ", "z", ")", ";">>,
    \* var x = 0; var y = 2 * 3; var z = x = 2 * 3; println(x, y, z);
    <<"v", "a", "r", " ", "x", " ", "=", " ", "0", ";", " ", "v", "a", "r",
        " ", "y", " ", "=", " ", "2", " ", "*", " ", "3", ";", " ", "v", "a",
        "r", " ", "z", " ", "=", " ", "x", " ", "=", " ", "2", " ", "*", " ",
        "3", ";", " ", "p", "r", "i", "n", "t", "l", "n", "(", "x", ",", " ",
        "y", ",", " ", "z", ")", ";">>,
    \* var x = 0; var y = 1.5 + 1; var z = x = 1.5 + 1; println(x, y, z);
    <<"v", "a", "r", " ", "x", " ", "=", " ", "0", ";", " ", "v", "a", "r",
        " ", "y", " ", "=", " ", "1", ".", "5", " ", "+", " ", "1", ";", " ",
        "v", "a", "r", " ", "z", " ", "=", " ", "x", " ", "=", " ", "1", ".",
        "5", " ", "+", " ", "1", ";", " ", "p", "r", "i", "n", "t", "l", "n",
        "(", "x", ",", " ", "y", ",", " ", "z", ")", ";">> }

\* a loop of two iterations whose body calls f and then writes b; f executes a break outside any loop of its own, or inside its own loop
Breaking ==
    \* func f() { break; } loop (var i = 0; i < 2; i = i + 1) { f(); print("b"); } println("end");
  { <<"f", "u", "n", "c", " ", "f", "(", ")", " ", "{", " ", "b", "r", "e",
        "a", "k", ";", " ", "}", " ", "l", "o", "o", "p", " ", "(", "v", "a",
        "r", " ", "i", " ", "=", " ", "0", ";", " ", "i", " ", "<", " ", "2",
        ";", " ", "i", " ", "=", " ", "i", " ", "+", " ", "1", ")", " ", "{",
        " ", "f", "(", ")", ";", " ", "p", "r", "i", "n", "t", "(", "\"", "b",
        "\"", ")", ";", " ", "}", " ", "p", "r", "i", "n", "t", "l", "n", "(",
        "\"", "e", "n", "d", "\"", ")", ";">>,
    \* func f() { if (true) { break; } } var i = 0; loop (i < 2) { i = i + 1; f(); print("b"); } println("end");
    <<"f", "u", "n", "c", " ", "f", "(", ")", " ", "{", " ", "i", "f", " ",
        "(", "t", "r", "u", "e", ")", " ", "{", " ", "b", "r", "e", "a", "k",
        ";", " ", "}", " ", "}", " ", "v", "a", "r", " ", "i", " ", "=", " ",
        "0", ";", " ", "l", "o", "o", "p", " ", "(", "i", " ", "<", " ", "2",
        ")", " ", "{", " ", "i", " ", "=", " ", "i", " ", "+", " ", "1", ";",
        " ", "f", "(", ")", ";", " ", "p", "r", "i", "n", "t", "(", "\"", "b",
        "\"", ")", ";", " ", "}", " ", "p", "r", "i", "n", "t", "l", "n", "(",
        "\"", "e", "n", "d", "\"", ")", ";">>,
    \* func f() { loop { break; } return 1; } var i = 0; loop (i < 2) { i = i + 1; f(); print("b"); } println("end");
    <<"f", "u", "n", "c", " ", "f", "(", ")", " ", "{", " ", "l", "o", "o",
        "p", " ", "{", " ", "b", "r", "e", "a", "k", ";", " ", "}", " ", "r",
        "e", "t", "u", "r", "n", " ", "1", ";", " ", "}", " ", "v", "a", "r",
        " ", "i", " ", "=", " ", "0", ";", " ", "l", "o", "o", "p", " ", "(",
        "i", " ", "<", " ", "2", ")", " ", "{", " ", "i", " ", "=", " ", "i",
        " ", "+", " ", "1", ";", " ", "f", "(", ")", ";", " ", "p", "r", "i",
        "n", "t", "(", "\"", "b", "\"", ")", ";", " ", "}", " ", "p", "r", "i",
        "n", "t", "l", "n", "(", "\"", "e", "n", "d", "\"", ")", ";">>,
    \* func f() { { break; } } func g() { f(); print("b"); } loop (var i = 0; i < 2; i = i + 1) { g(); print("b"); } println("end");
    <<"f", "u", "n", "c", " ", "f", "(", ")", " ", "{", " ", "{", " ", "b",
        "r", "e", "a", "k", ";", " ", "}", " ", "}", " ", "f", "u", "n", "c",
        " ", "g", "(", ")", " ", "{", " ", "f", "(", ")", ";", " ", "p", "r",
        "i", "n", "t", "(", "\"", "b", "\"", ")", ";", " ", "}", " ", "l", "o",
        "o", "p", " ", "(", "v", "a", "r", " ", "i", " ", "=", " ", "0", ";",
        " ", "i", " ", "<", " ", "2", ";", " ", "i", " ", "=", " ", "i", " ",
        "+", " ", "1", ")", " ", "{", " ", "g", "(", ")", ";", " ", "p", "r",
        "i", "n", "t", "(", "\"", "b", "\"", ")", ";", " ", "}", " ", "p", "r",
        "i", "n", "t", "l", "n", "(", "\"", "e", "n", "d", "\"", ")", ";">> }

\* the string form of print, a bar, and the parenthesised form of print on the same operands
PrintForms ==
    \* print "s"; print("|"); print("s");
  { <<"p", "r", "i", "n", "t", " ", "\"", "s", "\"", ";", " ", "p", "r", "i",
        "n", "t", "(", "\"", "|", "\"", ")", ";", " ", "p", "r", "i", "n", "t",
        "(", "\"", "s", "\"", ")", ";">>,
    \* print "s" + 1; print("|"); print("s" + 1);
    <<"p", "r", "i", "n", "t", " ", "\"", "s", "\"", " ", "+", " ", "1", ";",
        " ", "p", "r", "i", "n", "t", "(", "\"", "|", "\"", ")", ";", " ", "p",
        "r", "i", "n", "t", "(", "\"", "s", "\"", " ", "+", " ", "1", ")", ";">>,
    \* print "s" + 1 + 2; print("|"); print("s" + 1 + 2);
    <<"p", "r", "i", "n", "t", " ", "\"", "s", "\"", " ", "+", " ", "1", " ",
        "+", " ", "2", ";", " ", "p", "r", "i", "n", "t", "(", "\"", "|", "\"",
        ")", ";", " ", "p", "r", "i", "n", "t", "(", "\"", "s", "\"", " ", "+",
        " ", "1", " ", "+", " ", "2", ")", ";">>,
    \* print "s" + "a" + "b"; print("|"); print("s" + "a" + "b");
    <<"p", "r", "i", "n", "t", " ", "\"", "s", "\"", " ", "+", " ", "\"", "a",
        "\"", " ", "+", " ", "\"", "b", "\"", ";", " ", "p", "r", "i", "n",
        "t", "(", "\"", "|", "\"", ")", ";", " ", "p", "r", "i", "n", "t", "(",
        "\"", "s", "\"", " ", "+", " ", "\"", "a", "\"", " ", "+", " ", "\"",
        "b", "\"", ")", ";">>,
    \* print "s" + 1.5 + 2; print("|"); print("s" + 1.5 + 2);
    <<"p", "r", "i", "n", "t", " ", "\"", "s", "\"", " ", "+", " ", "1", ".",
        "5", " ", "+", " ", "2", ";", " ", "p", "r", "i", "n", "t", "(", "\"",
        "|", "\"", ")", ";", " ", "p", "r", "i", "n", "t", "(", "\"", "s",
        "\"", " ", "+", " ", "1", ".", "5", " ", "+", " ", "2", ")", ";">>,
    \* print "s" + 1 + "a"; print("|"); print("s" + 1 + "a");
    <<"p", "r", "i", "n", "t", " ", "\"", "s", "\"", " ", "+", " ", "1", " ",
        "+", " ", "\"", "a", "\"", ";", " ", "p", "r", "i", "n", "t", "(",
        "\"", "|", "\"", ")", ";", " ", "p", "r", "i", "n", "t", "(", "\"",
        "s", "\"", " ", "+", " ", "1", " ", "+", " ", "\"", "a", "\"", ")",
        ";">>,
    \* print "s" + 1 + 2 + 3; print("|"); print("s" + 1 + 2 + 3);
    <<"p", "r", "i", "n", "t", " ", "\"", "s", "\"", " ", "+", " ", "1", " ",
        "+", " ", "2", " ", "+", " ", "3", ";", " ", "p", "r", "i", "n", "t",
        "(", "\"", "|", "\"", ")", ";", " ", "p", "r", "i", "n", "t", "(",
        "\"", "s", "\"", " ", "+", " ", "1", " ", "+", " ", "2", " ", "+", " ",
        "3", ")", ";">> }

\* a is the negation of n and b is 0 - n, for integer, double and numeric string n
Negations ==
    \* var n = 5; var a = -n; var b = 0 - n; println(a, b);
  { <<"v", "a", "r", " ", "n", " ", "=", " ", "5", ";", " ", "v", "a", "r",
        " ", "a", " ", "=", " ", "-", "n", ";", " ", "v", "a", "r", " ", "b",
        " ", "=", " ", "0", " ", "-", " ", "n", ";", " ", "p", "r", "i", "n",
        "t", "l", "n", "(", "a", ",", " ", "b", ")", ";">>,
    \* var n = 0; var a = -n; var b = 0 - n; println(a, b);
    <<"v", "a", "r", " ", "n", " ", "=", " ", "0", ";", " ", "v", "a", "r",
        " ", "a", " ", "=", " ", "-", "n", ";", " ", "v", "a", "r", " ", "b",
        " ", "=", " ", "0", " ", "-", " ", "n", ";", " ", "p", "r", "i", "n",
        "t", "l", "n", "(", "a", ",", " ", "b", ")", ";">>,
    \* var n = 2.5; var a = -n; var b = 0 - n; println(a, b);
    <<"v", "a", "r", " ", "n", " ", "=", " ", "2", ".", "5", ";", " ", "v",
        "a", "r", " ", "a", " ", "=", " ", "-", "n", ";", " ", "v", "a", "r",
        " ", "b", " ", "=", " ", "0", " ", "-", " ", "n", ";", " ", "p", "r",
        "i", "n", "t", "l", "n", "(", "a", ",", " ", "b", ")", ";">>,
    \* var n = 2 * 3; var a = -n; var b = 0 - n; println(a, b);
    <<"v", "a", "r", " ", "n", " ", "=", " ", "2", " ", "*", " ", "3", ";",
        " ", "v", "a", "r", " ", "a", " ", "=", " ", "-", "n", ";", " ", "v",
        "a", "r", " ", "b", " ", "=", " ", "0", " ", "-", " ", "n", ";", " ",
        "p", "r", "i", "n", "t", "l", "n", "(", "a", ",", " ", "b", ")", ";">>,
    \* var n = "7"; var a = -n; var b = 0 - n; println(a, b);
    <<"v", "a", "r", " ", "n", " ", "=", " ", "\"", "7", "\"", ";", " ", "v",
        "a", "r", " ", "a", " ", "=", " ", "-", "n", ";", " ", "v", "a", "r",
        " ", "b", " ", "=", " ", "0", " ", "-", " ", "n", ";", " ", "p", "r",
        "i", "n", "t", "l", "n", "(", "a", ",", " ", "b", ")", ";">> }

\* the negated literal printed
MinusFive ==
    \* println(-5);
  { <<"p", "r", "i", "n", "t", "l", "n", "(", "-", "5", ")", ";">> }

\* a read of the undefined variable u at the top level, in a block, an if branch, a loop body, a function body and two blocks deep, each before println(1)
Failing ==
    \* println(u); println(1);
  { <<"p", "r", "i", "n", "t", "l", "n", "(", "u", ")", ";", " ", "p", "r",
        "i", "n", "t", "l", "n", "(", "1", ")", ";">>,
    \* { println(u); } println(1);
    <<"{", " ", "p", "r", "i", "n", "t", "l", "n", "(", "u", ")", ";", " ",
        "}", " ", "p", "r", "i", "n", "t", "l", "n", "(", "1", ")", ";">>,
    \* if (true) { println(u); } println(1);
    <<"i", "f", " ", "(", "t", "r", "u", "e", ")", " ", "{", " ", "p", "r",
        "i", "n", "t", "l", "n", "(", "u", ")", ";", " ", "}", " ", "p", "r",
        "i", "n", "t", "l", "n", "(", "1", ")", ";">>,
    \* loop { println(u); } println(1);
    <<"l", "o", "o", "p", " ", "{", " ", "p", "r", "i", "n", "t", "l", "n",
        "(", "u", ")", ";", " ", "}", " ", "p", "r", "i", "n", "t", "l", "n",
        "(", "1", ")", ";">>,
    \* func f() { println(u); } f(); println(1);
    <<"f", "u", "n", "c", " ", "f", "(", ")", " ", "{", " ", "p", "r", "i",
        "n", "t", "l", "n", "(", "u", ")", ";", " ", "}", " ", "f", "(", ")",
        ";", " ", "p", "r", "i", "n", "t", "l", "n", "(", "1", ")", ";">>,
    \* { { println(u); } } println(1);
    <<"{", " ", "{", " ", "p", "r", "i", "n", "t", "l", "n", "(", "u", ")",
        ";", " ", "}", " ", "}", " ", "p", "r", "i", "n", "t", "l", "n", "(",
        "1", ")", ";">> }

Sources ==
  Complete \cup StraySources \cup MixedChains \cup OtherPrimaries \cup IdentifierChains
    \cup PrintlnStrings \cup PrintStrings \cup PrintStringsOpen \cup Lines
    \cup Orphans \cup Restoring \cup LoopHeads \cup Forward
    \cup Effects \cup Stores \cup Breaking \cup PrintForms \cup Negations
    \cup MinusFive \cup Failing

(***************************************************************************)
(* The source text of a program given as its tree: what the file holds.    *)
(***************************************************************************)
\* the spelling of the operators
OperatorText ==
  "PLUS" :> <<"+">> @@ "MINUS" :> <<"-">> @@ "MULTIPLY" :> <<"*">> @@ "DIVIDE" :> <<"/">>
    @@ "MODULO" :> <<"%">> @@ "ASSIGN" :> <<"=">> @@ "NOT" :> <<"!">>
    @@ "EQUALS" :> <<"=", "=">> @@ "NOT_EQUALS" :> <<"!", "=">>
    @@ "LESS" :> <<"<">> @@ "LESS_EQ" :> <<"<", "=">>
    @@ "GREATER" :> <<">">> @@ "GREATER_EQ" :> <<">", "=">>
    @@ "AND" :> <<"&", "&">> @@ "OR" :> <<"|", "|">>

\* the literal of a token value: a number without sign, a quoted string,
\* true or false
LiteralText(v) ==
  IF v.alt = "double"
    THEN (IF DIsIntegral(v.d) THEN IntToString(Apply("DTrunc", <<v.d>>)) ELSE Apply("DblToString", <<v.d>>))
  ELSE IF v.alt = "bool" THEN (IF v.b THEN <<"t", "r", "u", "e">> ELSE <<"f", "a", "l", "s", "e">>)
  ELSE <<"\"">> \o v.s \o <<"\"">>

RECURSIVE Joined(_, _)
\* the texts of texts one after the other, sep between them
Joined(texts, sep) ==
  IF texts = <<>> THEN <<>>
  ELSE IF Len(texts) = 1 THEN texts[1]
  ELSE texts[1] \o sep \o Joined(Tail(texts), sep)

RECURSIVE SourceText(_)
\* the texts of the nodes of a sequence
SourceTexts(nodes) == [i \in 1..Len(nodes) |-> SourceText(nodes[i])]

\* a block in its braces
BlockText(node) == <<"{", " ">> \o Joined(SourceTexts(node.statements) \o <<(<<"}">>)>>, <<" ">>)

\* the text of a statement or of an expression; a loop has its three header
\* parts
SourceText(node) ==
  CASE node.type = "BLOCK" -> BlockText(node)
    [] node.type = "VARIABLE_DECLARATION" ->
         <<"v", "a", "r", " ">> \o node.identifier
           \o (IF node.initializer = NoNode THEN <<>>
               ELSE <<" ", "=", " ">> \o SourceText(node.initializer))
           \o <<";">>
    [] node.type = "FUNCTION_DECLARATION" ->
         <<"f", "u", "n", "c", " ">> \o node.name \o <<"(">> \o Joined(node.parameters, <<",", " ">>)
           \o <<")">>
           \o (IF node.body = NoNode THEN <<";">> ELSE <<" ">> \o BlockText(node.body))
    [] node.type = "LOOP" ->
         <<"l", "o", "o", "p", " ", "(">> \o SourceText(node.init) \o <<" ">> \o SourceText(node.condition)
           \o <<";", " ">> \o SourceText(node.increment) \o <<")", " ">>
           \o BlockText(node.body)
    [] node.type = "IF" ->
         <<"i", "f", " ", "(">> \o SourceText(node.condition) \o <<")", " ">>
           \o BlockText(node.thenBranch)
           \o (IF node.elseBranch = NoNode THEN <<>>
               ELSE <<" ", "e", "l", "s", "e", " ">> \o BlockText(node.elseBranch))
    [] node.type = "PRINT" ->
         (IF node.isPrintln THEN <<"p", "r", "i", "n", "t", "l", "n", "(">> ELSE <<"p", "r", "i", "n", "t", "(">>)
           \o Joined(SourceTexts(node.args), <<",", " ">>) \o <<")", ";">>
    [] node.type = "RETURN" ->
         (IF node.value = NoNode THEN <<"r", "e", "t", "u", "r", "n">> ELSE <<"r", "e", "t", "u", "r", "n", " ">> \o SourceText(node.value))
           \o <<";">>
    [] node.type = "BREAK" -> <<"b", "r", "e", "a", "k", ";">>
    [] node.type = "EXPRESSION" -> SourceText(node.expr) \o <<";">>
    [] node.type = "BINARY" ->
         SourceText(node.left) \o <<" ">> \o OperatorText[node.op] \o <<" ">>
           \o SourceText(node.right)
    [] node.type = "UNARY" -> OperatorText[node.op] \o SourceText(node.expr)
    [] node.type = "IDENTIFIER" -> node.name
    [] node.type = "LITERAL" -> LiteralText(node.value)
    [] node.type = "CALL" ->
         SourceText(node.callee) \o <<"(">>
           \o Joined(SourceTexts(node.arguments), <<",", " ">>) \o <<")">>
    [] node.type = "ARRAY" ->
         <<"[">> \o Joined(SourceTexts(node.elements), <<",", " ">>) \o <<"]">>
    [] node.type = "ARRAY_ACCESS" ->
         SourceText(node.array) \o <<"[">> \o SourceText(node.index) \o <<"]">>
    [] node.type = "PROPERTY_ACCESS" ->
         SourceText(node.object) \o <<".">> \o node.property

\* the text of a program: its statements one after the other
ProgramText(tree) == Joined(SourceTexts(tree.statements), <<" ">>)

(***************************************************************************)
(* The input files of the model.                                           *)
(***************************************************************************)
Programs ==
  {SumProgram(n) : n \in 0..MaxN} \cup {ScenarioC(k) : k \in 0..MaxN} \cup {ScenarioC(10)}
    \cup {ShortCircuit(op, l, right) : op \in {"AND", "OR"}, l \in BOOLEAN, right \in Rights}
    \cup {FaultProgram(kind) :
            kind \in {"undefined", "arity", "target", "break", "bodiless", "endless"}}
    \cup {BreakProgram(k) : k \in 0..MaxN}
    \cup {ReturnProgram(k) : k \in 0..MaxN}
    \cup {ShadowProgram(kind) : kind \in ShadowKinds} \cup {ShadowLoopHeader}
    \cup {DynamicScope(local) : local \in BOOLEAN}
    \cup {ClosureProgram}
    \cup {PromoteProgram(scalar, i) : scalar \in Scalars, i \in 1..MaxN}
    \cup {NegativeIndex(init, i) : init \in Inits, i \in 1..MaxN}
    \cup {GrowProgram(i) : i \in Indices} \cup {LongArrayProgram(j) : j \in LongIndices}
    \cup {BinaryProgram(op, l, r) : op \in {"PLUS", "EQUALS"}, l \in Operands, r \in Operands}
    \cup {BinaryProgram(op, IntInit(a), IntInit(b)) :
            op \in ArithmeticOps, a \in (-MaxInt)..MaxInt, b \in (-MaxInt)..MaxInt}
    \cup {CopyProgram(kind, i) : kind \in CopyKinds, i \in 0..MaxN}

\* the files the lexer is run on alone
SourceFiles == [kind : {"text"}, text : Sources]

\* what a file is to readFileIdzeyKL: "text" files are read, and text is
\* their characters: those of Sources and the texts of Programs
Files ==
  SourceFiles
    \cup [kind : {"text"}, text : {ProgramText(p) : p \in Programs}]
    \cup [kind : {"wrongExtension", "unreadable", "empty"}, text : {<<>>}]

\* readFileIdzeyKL: TRUE iff the string returned is not empty
readFileIdzeyKL(f) == f.kind = "text"

(***************************************************************************)
(* The process: main() of either binary.                                   *)
(***************************************************************************)
VARIABLES
  binary,        \* "classic" (mainClassicBuffer.cpp) or "redirected"
  argc,          \* number of command-line words, the program name included
  file,          \* the input file named by argv[1]
  outputOpens,   \* whether the output file of the redirected binary can be opened
  pc,            \* position in main
  sourceEmpty,   \* source.empty()
  lexer,         \* the Lexer nextToken is called on
  tokens,        \* the tokens Lexer::nextToken has returned, in order
  program,       \* the tree returned by parser.parse()
  coutTarget,    \* where std::cout writes: "stdout" or "file"
  envs,          \* the Environment objects
  environment_,  \* Interpreter::environment_
  globals_,      \* Interpreter::globals_
  out,           \* the characters written to std::cout
  err,           \* the lines written to std::cerr
  steps,         \* loop iterations and calls performed
  exitStatus,    \* the value main returned, -1 before
  assignment     \* the call of Environment::assign made on its own: the heap
                 \* before it and its name and value

vars ==
  <<binary, argc, file, outputOpens, pc, sourceEmpty, lexer, tokens, program, coutTarget,
    envs, environment_, globals_, out, err, steps, exitStatus, assignment>>

\* no call of Environment::assign made on its own
NoAssignment == [envs |-> <<>>, name |-> <<>>, value |-> NullValue]

Init ==
  /\ binary \in {"classic", "redirected"}
  /\ argc \in {2, 3}
  /\ file \in Files
  /\ outputOpens \in BOOLEAN
  /\ pc = "start"
  /\ sourceEmpty = TRUE
  /\ lexer = Lexer(<<>>)
  /\ tokens = <<>>
  /\ program = BlockStatement(<<>>)
  /\ coutTarget = "stdout"
  /\ envs = <<>>
  /\ environment_ = NullEnv
  /\ globals_ = NullEnv
  /\ out = <<>>
  /\ err = <<>>
  /\ steps = 0
  /\ exitStatus = -1
  /\ assignment = NoAssignment

MainErr(text) == [prefix |-> text, what |-> NoWhat]

\* main up to the construction of the lexer: the argument check and the
\* empty-source check exist in the redirected binary only
ReadSource ==
  /\ pc = "start"
  /\ IF binary = "redirected" /\ argc < 3
       THEN /\ err' = Append(err, MainErr("usage"))
            /\ pc' = "exited"
            /\ exitStatus' = 1
            /\ UNCHANGED <<sourceEmpty, coutTarget>>
     ELSE LET nonEmpty == readFileIdzeyKL(file)
              err1 == IF nonEmpty THEN err ELSE Append(err, MainErr("readFileIdzeyKL"))
          IN  IF binary = "redirected" /\ ~nonEmpty
                THEN /\ err' = Append(err1, MainErr("empty source"))
                     /\ pc' = "exited"
                     /\ exitStatus' = 1
                     /\ UNCHANGED <<sourceEmpty, coutTarget>>
              ELSE /\ err' = IF binary = "redirected" /\ ~outputOpens
                             THEN Append(err1, MainErr("redirectCoutStreamToFile"))
                             ELSE err1
                   /\ sourceEmpty' = ~nonEmpty
                   /\ coutTarget' = IF binary = "redirected" /\ outputOpens
                                    THEN "file" ELSE "stdout"
                   /\ pc' = "read"
                   /\ UNCHANGED exitStatus
  /\ UNCHANGED <<binary, argc, file, outputOpens, lexer, tokens, program, envs,
                 environment_, globals_, out, steps, assignment>>

\* what main keeps of parser.parse() returning or throwing r: the tokens
\* fetched, the tree returned and the exception caught
Outcome(r) ==
  [lexer |-> r.ps.lexer_, tokens |-> r.ps.tokens, program |-> r.node,
   failed |-> Failed(r), what |-> r.err]

\* Parser parser(lexer) and parser.parse() of main on the file.  An empty
\* source is at EOF at once and yields the empty Block.
ParseFile(f, empty) == Outcome(parse(Parser(Lexer(IF empty THEN <<>> ELSE f.text))))

\* Parser parser(lexer), the try block of main after parser.parse() and its
\* catch clause.  The constructor is outside the try block: when it has
\* fetched no token, the exception left nextToken() in it, std::terminate is
\* called and the process is ended by SIGABRT.
Parsing(r) ==
  /\ lexer' = r.lexer
  /\ tokens' = r.tokens
  /\ IF r.failed /\ r.tokens = <<>>
       THEN /\ err' = Append(err, [prefix |-> "terminate called after throwing: ",
                                   what |-> r.what])
            /\ pc' = "aborted"
            /\ exitStatus' = 134
            /\ UNCHANGED <<program, coutTarget>>
     ELSE IF r.failed
       THEN /\ err' = Append(err, [prefix |-> "Parser Exception: ", what |-> r.what])
            /\ coutTarget' = "stdout"
            /\ pc' = "exited"
            /\ exitStatus' = 1
            /\ UNCHANGED program
     ELSE /\ program' = r.program
          /\ pc' = "parsed"
          /\ UNCHANGED <<err, coutTarget, exitStatus>>

\* main from Parser parser(lexer) to the end of parser.parse()
Parse ==
  /\ pc = "read"
  /\ Parsing(ParseFile(file, sourceEmpty))
  /\ UNCHANGED <<binary, argc, file, outputOpens, sourceEmpty, envs, environment_,
                 globals_, out, steps, assignment>>

\* the catch clauses of Interpreter::interpret: the state it leaves
InterpretCatch(r) ==
  IF r.sig = "RuntimeError" THEN WriteErr(r.st, "Runtime Error: ", r.what)
  ELSE IF r.sig = "Return" \/ r.sig = "Break" THEN WriteErr(r.st, "Standard exception: ", NoWhat)
  ELSE r.st

\* Interpreter::Interpreter() followed by Interpreter::interpret(program)
interpret(prog) ==
  LET envs0 == NewEnvironment(<<>>, NullEnv)
      st0 == [envs |-> envs0, environment_ |-> 1, out |-> out, err |-> err, steps |-> 0]
  IN  ExecBlock(prog, st0.environment_, st0)

\* the process after interpret() ended with outcome r and left state st
AfterInterpret(r, st) ==
  /\ envs' = st.envs
  /\ environment_' = st.environment_
  /\ globals_' = 1
  /\ out' = st.out
  /\ err' = st.err
  /\ steps' = st.steps
  /\ pc' = IF r.sig = "Diverge" THEN "diverged"
           ELSE IF r.sig = "UB" THEN "undefined"
           ELSE "interpreted"

Caught(r) == AfterInterpret(r, InterpretCatch(r))

Interpret ==
  /\ pc = "parsed"
  /\ Caught(interpret(program))
  /\ UNCHANGED <<binary, argc, file, outputOpens, sourceEmpty, lexer, tokens, program,
                 coutTarget, exitStatus, assignment>>

\* the end of main after interpret() returned
Return ==
  /\ pc = "interpreted"
  /\ pc' = "exited"
  /\ coutTarget' = "stdout"
  /\ exitStatus' = 0
  /\ UNCHANGED <<binary, argc, file, outputOpens, sourceEmpty, lexer, tokens, program, envs,
                 environment_, globals_, out, err, steps, assignment>>

\* undefined behaviour: the process ends with any status, 136 and 139 being
\* those of the signals SIGFPE and SIGSEGV
Crash ==
  /\ pc = "undefined"
  /\ pc' = "crashed"
  /\ exitStatus' \in {0, 1, 136, 139}
  /\ UNCHANGED <<binary, argc, file, outputOpens, sourceEmpty, lexer, tokens, program,
                 coutTarget, envs, environment_, globals_, out, err, steps, assignment>>

Next == ReadSource \/ Parse \/ Interpret \/ Return \/ Crash

Spec == Init /\ [][Next]_vars

(***************************************************************************)
(* The lexer alone: a caller that constructs Lexer(source) on the text of  *)
(* a file and calls nextToken() until it returns EOF.                      *)
(***************************************************************************)
LexInit ==
  /\ binary = "classic"
  /\ argc = 2
  /\ file \in SourceFiles
  /\ outputOpens = TRUE
  /\ pc = "start"
  /\ sourceEmpty = (file.text = <<>>)
  /\ lexer = Lexer(file.text)
  /\ tokens = <<>>
  /\ program = BlockStatement(<<>>)
  /\ coutTarget = "stdout"
  /\ envs = <<>>
  /\ environment_ = NullEnv
  /\ globals_ = NullEnv
  /\ out = <<>>
  /\ err = <<>>
  /\ steps = 0
  /\ exitStatus = -1
  /\ assignment = NoAssignment

\* what one call lexer.nextToken() returning or throwing t leaves: the
\* caller does not catch the exception
Returned(t) ==
  /\ lexer' = t.lx
  /\ tokens' = IF t.thrown = "" THEN Append(tokens, t.token) ELSE tokens
  /\ pc' = IF t.thrown = "" THEN pc ELSE "aborted"

\* one call lexer.nextToken()
CallNextToken ==
  /\ pc = "start"
  /\ IF tokens = <<>> THEN TRUE ELSE tokens[Len(tokens)].type # "EOF_TOKEN"
  /\ Returned(nextToken(lexer))
  /\ UNCHANGED <<binary, argc, file, outputOpens, sourceEmpty, program, coutTarget,
                 envs, environment_, globals_, out, err, steps, exitStatus, assignment>>

LexNext == CallNextToken

LexSpec == LexInit /\ [][LexNext]_vars

(***************************************************************************)
(* The environments alone: a caller that holds the scopes a run has made,  *)
(* each inside an earlier one, and calls assign(name, value) on one of     *)
(* them, catching the RuntimeError it may throw.                           *)
(***************************************************************************)
MaxScopes == 3

\* the names assigned to and the names the scopes may bind
ScopeNames == {<<"x">>, <<"y">>}

\* the enclosing_ pointers of n scopes: the globals have none, every other
\* scope was made inside an earlier one
Enclosings(n) ==
  {s \in [1..n -> 0..(n - 1)] : s[1] = NullEnv /\ \A k \in 2..n : s[k] # NullEnv /\ s[k] < k}

\* the heaps of at most MaxScopes scopes; the scope numbered k binds its
\* names to k
Heaps ==
  UNION {{[k \in 1..n |-> [values_ |-> [m \in bound[k] |-> IntegerValue(k)],
                            enclosing_ |-> enclosing[k]]] :
            enclosing \in Enclosings(n), bound \in [1..n -> SUBSET ScopeNames]} :
         n \in 1..MaxScopes}

EnvInit ==
  /\ binary = "classic"
  /\ argc = 2
  /\ file = [kind |-> "empty", text |-> <<>>]
  /\ outputOpens = TRUE
  /\ pc = "start"
  /\ sourceEmpty = TRUE
  /\ lexer = Lexer(<<>>)
  /\ tokens = <<>>
  /\ program = BlockStatement(<<>>)
  /\ coutTarget = "stdout"
  /\ envs \in Heaps
  /\ environment_ \in DOMAIN envs
  /\ globals_ = 1
  /\ out = <<>>
  /\ err = <<>>
  /\ steps = 0
  /\ exitStatus = -1
  /\ assignment \in [envs : {envs}, name : ScopeNames, value : {IntegerValue(9), NullValue}]

\* what the call environment_->assign(name, value) returning or throwing a
\* leaves: the caller catches the RuntimeError and keeps its message
AssignReturned(a) ==
  /\ envs' = a.envs
  /\ err' = IF a.thrown
            THEN Append(err, [prefix |-> "RuntimeError: ",
                              what |-> [msg |-> "Undefined variable",
                                        arg |-> assignment.name]])
            ELSE err
  /\ pc' = IF a.thrown THEN "thrown" ELSE "assigned"

\* one call environment_->assign(name, value)
CallAssign ==
  /\ pc = "start"
  /\ AssignReturned(assign(envs, environment_, assignment.name, assignment.value))
  /\ UNCHANGED <<binary, argc, file, outputOpens, sourceEmpty, lexer, tokens, program,
                 coutTarget, environment_, globals_, out, steps, exitStatus, assignment>>

EnvNext == CallAssign

EnvSpec == EnvInit /\ [][EnvNext]_vars

(***************************************************************************)
(* Properties.                                                             *)
(***************************************************************************)
\* interpret() has returned
Interpreted == pc \in {"interpreted", "exited"} /\ globals_ # NullEnv

\* the binding of a one-letter global variable
Global(n) == envs[globals_].values_[<<n>>]

HasGlobal(n) == <<n>> \in DOMAIN envs[globals_].values_

\* C1: for every n >= 0 the summation program ends with s an Integer equal to
\* n*(n+1)/2 and println(s) prints that integer without a decimal part;
\* Scenario C (break at i == 10) prints 45 and a newline.
C1_SumIsInteger ==
  Interpreted =>
    /\ \A n \in 0..MaxN :
         program = SumProgram(n) =>
           /\ Global("s") = IntegerValue((n * (n + 1)) \div 2)
           /\ out = IntToString((n * (n + 1)) \div 2) \o <<"\n">>
    /\ program = ScenarioC(10) => out = <<"4", "5", "\n">>

\* the Runtime Error lines on std::cerr
RuntimeErrors == {i \in 1..Len(err) : err[i].prefix = "Runtime Error: "}

\* the lines the catch clauses of interpret() and executeBlock() wrote
InterpretErrors ==
  {i \in 1..Len(err) : err[i].prefix \in {"Runtime Error: ", "Standard exception: "}}

RECURSIVE Repeat(_, _)
\* s repeated n times
Repeat(s, n) == IF n = 0 THEN <<>> ELSE s \o Repeat(s, n - 1)


\* C2: short-circuit evaluation: in L && R the operand R is evaluated (its
\* call made, its runtime error raised) only if L is truthy, in L || R only if
\* L is falsy.
C2_ShortCircuit ==
  Interpreted =>
    /\ \A l \in BOOLEAN :
         /\ program = ShortCircuit("AND", l, CallExpression(Var("m"), <<>>)) =>
              Global("c") = IntegerValue(IF l THEN 1 ELSE 0)
         /\ program = ShortCircuit("OR", l, CallExpression(Var("m"), <<>>)) =>
              Global("c") = IntegerValue(IF l THEN 0 ELSE 1)
    /\ program = ShortCircuit("AND", FALSE, Var("u")) =>
         RuntimeErrors = {} /\ HasGlobal("a") /\ Global("a") = BooleanValue(FALSE)
    /\ program = ShortCircuit("OR", TRUE, Var("u")) =>
         RuntimeErrors = {} /\ HasGlobal("a") /\ Global("a") = BooleanValue(TRUE)

\* C3: when the evaluation of the program raised a RuntimeError the process
\* exits with status 1, and status 0 is returned only when interpretation
\* completed without error.
C3_RuntimeErrorExitsOne ==
  (Interpreted /\ pc = "exited") =>
    /\ RuntimeErrors # {} => exitStatus = 1
    /\ exitStatus = 0 => InterpretErrors = {}

\* C4: in both binaries an input for which readFileIdzeyKL returns the empty
\* string (unreadable, wrong extension, empty) is rejected before the lexer
\* and the parser run, and the process exits with a nonzero status.
C4_UnreadableRejected ==
  ~readFileIdzeyKL(file) =>
    /\ pc \in {"start", "exited"}
    /\ pc = "exited" => exitStatus # 0

\* C5: a break inside a loop body, nested in an if-branch and a block, ends
\* only the innermost loop: the rest of the body and that loop's increment are
\* skipped, the statement after the loop runs, and the outer loop goes on with
\* its increment and its next iteration.
C5_BreakInnermost ==
  Interpreted =>
    \A k \in 0..MaxN :
      program = BreakProgram(k) =>
        /\ out = Repeat(Repeat(<<"a", "+">>, Min(k, 3)) \o <<"|", "+">>, 2)
                   \o <<"e", "n", "d", "\n">>
        /\ InterpretErrors = {}

\* the break at j == 1 has been executed in both outer iterations
C5_Witness ==
  /\ Interpreted
  /\ program = BreakProgram(1)
  /\ out = <<"a", "+", "|", "+", "a", "+", "|", "+", "e", "n", "d", "\n">>

\* C6: a return E inside a function body, nested in a loop, an if-branch and a
\* block, makes the call evaluate to the value of E and nothing later in the
\* body runs; a body that ends without return makes the call evaluate to null.
C6_ReturnUnwinds ==
  Interpreted =>
    \A k \in 0..MaxN :
      program = ReturnProgram(k) =>
        /\ InterpretErrors = {}
        /\ HasGlobal("v")
        /\ k < 3 => /\ Global("v") = IntegerValue(k + 10)
                    /\ out = Repeat(<<"a">>, k) \o IntToString(k + 10) \o <<"\n">>
        /\ k >= 3 => /\ Global("v") = NullValue
                     /\ out = <<"a", "a", "a", "z">> \o Chars_null \o <<"\n">>

\* the return at i == 1 has given the call its value
C6_Witness ==
  /\ Interpreted
  /\ program = ReturnProgram(1)
  /\ HasGlobal("v")
  /\ Global("v") = IntegerValue(11)
  /\ out = <<"a", "1", "1", "\n">>

\* C7: a var x declared inside a block, an if or else branch, a function body
\* or a loop body leaves the binding of x in the enclosing scope unchanged; a
\* var x in a loop body does not change the x of that loop's header, so the
\* loop over x = 0, 1, 2 makes its three iterations.
C7_BlockScoping ==
  Interpreted =>
    /\ \A kind \in ShadowKinds :
         program = ShadowProgram(kind) =>
           Global("x") = IntegerValue(1) /\ out = <<"1", "\n">>
    /\ program = ShadowLoopHeader =>
         /\ out = <<"a", "a", "a">>
         /\ DEq(Apply("asNumber", <<envs[2].values_[<<"x">>]>>), DblOfInt(3))

\* C8: a call with matching arity runs the body in a fresh environment whose
\* parent is the environment current at the call site: the parameters are
\* bound positionally in it, a free variable of the body resolves to the
\* innermost binding visible at the call site (the caller's local shadows the
\* global), and an assignment to it updates that binding.
C8_DynamicScope ==
  Interpreted =>
    /\ program = DynamicScope(TRUE) =>
         /\ out = <<"1", "2", "l", "m", "g", "\n">>
         /\ Global("x") = StringValue(<<"g">>)
         /\ Len(envs) = 3
         /\ envs[2].enclosing_ = globals_
         /\ envs[2].values_[<<"x">>] = StringValue(<<"m">>)
         /\ envs[3].enclosing_ = 2
         /\ envs[3].values_ = (<<"a">> :> StringValue(<<"1">>)) @@ (<<"b">> :> StringValue(<<"2">>))
    /\ program = DynamicScope(FALSE) =>
         /\ out = <<"1", "2", "g", "m", "m", "\n">>
         /\ Global("x") = StringValue(<<"m">>)
         /\ Len(envs) = 3
         /\ envs[3].enclosing_ = 2

\* the callee has read and assigned the caller's local x
C8_Witness ==
  /\ Interpreted
  /\ program = DynamicScope(TRUE)
  /\ out = <<"1", "2", "l", "m", "g", "\n">>
  /\ envs[2].values_[<<"x">>] = StringValue(<<"m">>)

\* C9: a function declared inside another function's body and returned from
\* it can still read the variables of its declaring scope when it is called
\* after that scope has exited: no Undefined variable error.
C9_ClosureCapturesScope ==
  (Interpreted /\ program = ClosureProgram) =>
    /\ RuntimeErrors = {}
    /\ out = <<"v", "\n">>

\* the value a declaration var x = S; (or var x;) binds
ScalarValue(scalar) == IF scalar = NoNode THEN NullValue ELSE evaluateLiteral(scalar)

\* C10: x[i] = 7 with x bound to a non-array value s and 1 <= i <= 1000
\* rebinds x to an Array whose element 0 is s and whose element i is 7.
C10_PromotionKeepsScalar ==
  Interpreted =>
    \A scalar \in Scalars, i \in 1..MaxN :
      program = PromoteProgram(scalar, i) =>
        /\ isArray(Global("x"))
        /\ Len(Global("x").array_) = i + 1
        /\ Global("x").array_[1] = ScalarValue(scalar)
        /\ Global("x").array_[i + 1] = IntegerValue(7)
\* the value a declaration var x = I; binds
InitValue(init) ==
  IF init.type = "ARRAY" THEN ArrayValue(<<IntegerValue(1), IntegerValue(2)>>)
  ELSE ScalarValue(init)

\* C11: x[-i] = 7 is silently ignored: whatever x is bound to (an array, a
\* string, another scalar), its binding keeps its type tag and its contents,
\* and no error is raised.
C11_NegativeIndexIgnored ==
  Interpreted =>
    \A init \in Inits, i \in 1..MaxN :
      program = NegativeIndex(init, i) =>
        /\ InterpretErrors = {}
        /\ Global("x") = InitValue(init)

\* the array a0 with v at index i, null-filled up to i
Grown(a0, i, v) ==
  [k \in 1..(IF i + 1 > Len(a0) THEN i + 1 ELSE Len(a0)) |->
     IF k = i + 1 THEN v ELSE IF k <= Len(a0) THEN a0[k] ELSE NullValue]

\* the arrays [1, 2, 3] and [1, 1, ..., 1] of 1024 elements
OneTwoThree == <<IntegerValue(1), IntegerValue(2), IntegerValue(3)>>
Ones == [k \in 1..1024 |-> IntegerValue(1)]

\* C12 as stated: a[i] = v on an array of length n gives, for 0 <= i <= 1000,
\* the array of length max(n, i+1) with v at i, null at n..i-1 and the other
\* elements kept (Scenario D prints 6 and null); for i > 1000 the array is
\* unchanged whatever its length.
C12_CapWhateverLength ==
  Interpreted =>
    /\ \A i \in Indices :
         program = GrowProgram(i) =>
           Global("a") = ArrayValue(IF i > 1000 THEN OneTwoThree
                                    ELSE Grown(OneTwoThree, i, IntegerValue(99)))
    /\ program = GrowProgram(5) => out = <<"6", "\n", "n", "u", "l", "l", "\n">>
    /\ \A j \in LongIndices :
         program = LongArrayProgram(j) =>
           Global("a") = ArrayValue(IF j > 1000 THEN Ones
                                    ELSE Grown(Ones, j, IntegerValue(7)))

\* C12, amended: as above, but an index above 1000 is ignored only when it is
\* not below the length of the array; an element that exists is replaced
\* whatever its index.
C12_ElementAssignment ==
  Interpreted =>
    /\ \A i \in Indices :
         program = GrowProgram(i) =>
           Global("a") = ArrayValue(IF i > 1000 /\ i >= 3 THEN OneTwoThree
                                    ELSE Grown(OneTwoThree, i, IntegerValue(99)))
    /\ program = GrowProgram(5) => out = <<"6", "\n", "n", "u", "l", "l", "\n">>
    /\ \A j \in LongIndices :
         program = LongArrayProgram(j) =>
           Global("a") = ArrayValue(IF j > 1000 /\ j >= 1024 THEN Ones
                                    ELSE Grown(Ones, j, IntegerValue(7)))

\* an element above index 1000 of the long array has been replaced
C12_Witness ==
  /\ Interpreted
  /\ program = LongArrayProgram(1001)
  /\ Len(Global("a").array_) = 1024
  /\ Global("a").array_[1002] = IntegerValue(7)

\* C13: a + b, where a and b are not both numeric, neither is a String and
\* they are not both Arrays (Integer + Boolean, Integer + Null, Array +
\* Integer, ...), is the String concatenation of the two stringified operands.
C13_PlusFallsBackToConcat ==
  Interpreted =>
    \A l \in Operands, r \in Operands :
      LET a == InitValue(l)
          b == InitValue(r)
      IN  (/\ program = BinaryProgram("PLUS", l, r)
           /\ ~(isNumber(a) /\ isNumber(b))
           /\ ~(isString(a) \/ isString(b))
           /\ ~(isArray(a) /\ isArray(b)))
            => Global("r") = StringValue(toString(a) \o toString(b))

\* the pairs of operands for which a case of == is listed
ListedEquality(a, b) ==
  \/ isNull(a) /\ isNull(b)
  \/ isNumber(a) /\ isNumber(b)
  \/ isString(a) /\ isString(b)
  \/ isBoolean(a) /\ isBoolean(b)
  \/ (isNumber(a) /\ isString(b)) \/ (isString(a) /\ isNumber(b))
  \/ isArray(a) /\ isArray(b)

\* C14: a == b is false for every pair of operands outside the listed cases
\* (Null vs Boolean, Boolean vs Integer, Boolean vs String, Array vs String,
\* ...).
C14_EqualityOtherwiseFalse ==
  Interpreted =>
    \A l \in Operands, r \in Operands :
      (/\ program = BinaryProgram("EQUALS", l, r)
       /\ ~ListedEquality(InitValue(l), InitValue(r)))
        => Global("r") = BooleanValue(FALSE)

\* the Integers of the arithmetic programs
Ints == (-MaxInt)..MaxInt

\* C15: for Integers a and b, a + b, a - b, a * b, a % b (b # 0) and a / b
\* (b # 0 dividing a) evaluate to a value tagged Integer, never Double, equal
\* to the mathematical result.
C15_IntegerArithmetic ==
  Interpreted =>
    \A a \in Ints, b \in Ints :
      /\ program = BinaryProgram("PLUS", IntInit(a), IntInit(b)) =>
           Global("r") = IntegerValue(a + b)
      /\ program = BinaryProgram("MINUS", IntInit(a), IntInit(b)) =>
           Global("r") = IntegerValue(a - b)
      /\ program = BinaryProgram("MULTIPLY", IntInit(a), IntInit(b)) =>
           Global("r") = IntegerValue(a * b)
      /\ (program = BinaryProgram("MODULO", IntInit(a), IntInit(b)) /\ b # 0) =>
           /\ isInteger(Global("r"))
           /\ Abs(Global("r").integer_) < Abs(b)
           /\ \E q \in Ints : a = b * q + Global("r").integer_
      /\ (program = BinaryProgram("DIVIDE", IntInit(a), IntInit(b)) /\ b # 0) =>
           \A q \in Ints : a = b * q => Global("r") = IntegerValue(q)

\* the product of the Integers -2 and 3 has been computed
C15_Witness ==
  /\ Interpreted
  /\ program = BinaryProgram("MULTIPLY", IntInit(-2), IntInit(3))
  /\ Global("a") = IntegerValue(-2)
  /\ Global("b") = IntegerValue(3)
  /\ Global("r") = IntegerValue(-6)

\* C16: arrays have value semantics: once b is a copy of a (by declaration,
\* by assignment or as the parameter of a call), element assignments to b
\* leave the array bound to a unchanged and element assignments to a leave b
\* unchanged.
C16_ArrayValueSemantics ==
  Interpreted =>
    \A kind \in CopyKinds, i \in 0..MaxN :
      program = CopyProgram(kind, i) =>
        /\ InterpretErrors = {}
        /\ Global("a") = ArrayValue(<<IntegerValue(8), IntegerValue(2)>>)
        /\ Global("b") =
             ArrayValue(Grown(<<IntegerValue(1), IntegerValue(2)>>, i, IntegerValue(9)))

\* the copy passed to f has been changed at index 1 and a at index 0
C16_Witness ==
  /\ Interpreted
  /\ program = CopyProgram("argument", 1)
  /\ Global("a") = ArrayValue(<<IntegerValue(8), IntegerValue(2)>>)
  /\ Global("b") = ArrayValue(<<IntegerValue(1), IntegerValue(9)>>)

(***************************************************************************)
(* Claims about the lexer and the parser.                                  *)
(***************************************************************************)
\* main caught the std::runtime_error of the parser
ParseThrew == \E k \in DOMAIN err : err[k].prefix = "Parser Exception: "

\* parser.parse() has returned a Block for the text of the file
ParseReturned == file.kind = "text" /\ tokens # <<>> /\ ~ParseThrew

\* C17: parse() returns a Block only if every token of the source up to EOF
\* was consumed: the last token the parser fetched is EOF, none is left
\* unconsumed in currentToken_, and no ERROR token was among them; a stray
\* token or an ERROR token makes parse() fail wherever it occurs.
C17_ParseConsumesEveryToken ==
  ParseReturned =>
    /\ tokens[Len(tokens)].type = "EOF_TOKEN"
    /\ \A k \in DOMAIN tokens : tokens[k].type # "ERROR"

\* C18: the parser accepts a call, an index or a property after a call and
\* a call after an index (f()[0], f().length, a[0](1), f()()), and an index
\* or a property after an array literal, a parenthesised expression and a
\* string literal ([1,2][0], (x).length, "abc".length): parse() returns a
\* tree for each of these statements.
C18_PostfixChainsAccepted ==
  file.kind = "text" /\ file.text \in MixedChains \cup OtherPrimaries => ~ParseThrew

\* C19: the string form of the print statements is accepted at any
\* position: print "lit" (+ EXPR)* with its ';', and println "lit"
\* (+ EXPR)* without and with a ';', last in the program or followed by
\* further statements, all parse.
C19_PrintStringAccepted ==
  file.kind = "text" /\ file.text \in PrintStrings \cup PrintlnStrings => ~ParseThrew

\* the newlines among the first k characters of the text
NewlinesBefore(text, k) == {j \in 1..k : text[j] = "\n"}

\* the 1-based line and column of the character at offset k of the text
LineOf(text, k) == 1 + Cardinality(NewlinesBefore(text, k))
ColumnOf(text, k) ==
  k + 1 - (CHOOSE j \in NewlinesBefore(text, k) \cup {0} :
             \A i \in NewlinesBefore(text, k) : i <= j)

\* C20: every token returned by nextToken() carries the 1-based line and
\* column of its first character, whatever newlines were consumed before it
\* in whitespace, in comments and inside string literals.
C20_TokenPositions ==
  file.kind = "text" =>
    \A k \in DOMAIN tokens :
      tokens[k].type # "EOF_TOKEN" =>
        /\ tokens[k].line = LineOf(file.text, tokens[k].start)
        /\ tokens[k].column = ColumnOf(file.text, tokens[k].start)

(***************************************************************************)
(* Claims about signals, environments and evaluation order.                *)
(***************************************************************************)
\* the prefixes of the diagnostics written to std::cerr
Diagnostics(prefix) == {k \in DOMAIN err : err[k].prefix = prefix}

\* C21: a break outside any loop and a return outside any function, at top
\* level or inside blocks and if-branches, does not leave interpret() as an
\* exception: interpret() writes a diagnostic "Runtime Error: <msg>" for it,
\* and no diagnostic of another form.
C21_OrphanSignalDiagnostic ==
  file.kind = "text" /\ file.text \in Orphans /\ Interpreted =>
    /\ Diagnostics("Runtime Error: ") # {}
    /\ Diagnostics("Standard exception: ") = {}

\* the scopes that bind the name
Binding(name) == {e \in DOMAIN envs : name \in DOMAIN envs[e].values_}

\* C22: after a statement has finished normally, by a break its loop caught
\* or by a return its call caught, the current environment is the one that
\* was current before it: a declaration that follows the statement lands in
\* the scope of the declaration that precedes it and reads that scope's
\* binding, and after the program the current environment is the globals.
C22_EnvironmentRestored ==
  file.kind = "text" /\ file.text \in Restoring /\ Interpreted =>
    /\ environment_ = globals_
    /\ Binding(<<"a">>) # {}
    /\ \A e \in Binding(<<"a">>) :
         /\ e \in Binding(<<"b">>)
         /\ envs[e].values_[<<"a">>] = IntegerValue(1)
         /\ envs[e].values_[<<"b">>] = IntegerValue(1)

\* a statement inside a function body or a block has finished and the
\* declaration after it has run: an inner scope binds b alone
C22_Witness ==
  /\ file.kind = "text" /\ file.text \in Restoring /\ Interpreted
  /\ \E e \in Binding(<<"a">>) : e # globals_
  /\ \E e \in Binding(<<"b">>) : e \notin Binding(<<"a">>)

RECURSIVE ChainOf(_, _)
\* the scopes of a heap from e outwards, e first
ChainOf(heap, e) ==
  IF e = NullEnv THEN <<>> ELSE <<e>> \o ChainOf(heap, heap[e].enclosing_)

\* the places in the chain from the current environment, before the call,
\* of the scopes that bind the name assigned to
Binders ==
  {k \in DOMAIN ChainOf(assignment.envs, environment_) :
     assignment.name \in DOMAIN assignment.envs[ChainOf(assignment.envs, environment_)[k]].values_}

\* the innermost scope of the chain that binds the name, when one does
InnermostBinder ==
  ChainOf(assignment.envs, environment_)[CHOOSE k \in Binders : \A j \in Binders : k <= j]

\* C23: after Environment::assign(name, v) on a scope of a heap, the heap has
\* the same scopes binding the same names; when a scope of the chain binds
\* the name, the call returns and the innermost such scope binds it to v,
\* every other binding of every scope being as before; when no scope of
\* the chain binds it, the call throws RuntimeError for that name and every
\* scope is as before, the name bound in none of the chain.
C23_AssignInnermostBinding ==
  pc \in {"assigned", "thrown"} =>
    /\ DOMAIN envs = DOMAIN assignment.envs
    /\ \A s \in DOMAIN envs :
         /\ envs[s].enclosing_ = assignment.envs[s].enclosing_
         /\ DOMAIN envs[s].values_ = DOMAIN assignment.envs[s].values_
    /\ IF Binders # {}
         THEN /\ pc = "assigned"
              /\ err = <<>>
              /\ \A s \in DOMAIN envs : \A m \in DOMAIN envs[s].values_ :
                   envs[s].values_[m] =
                     IF s = InnermostBinder /\ m = assignment.name
                       THEN assignment.value ELSE assignment.envs[s].values_[m]
       ELSE /\ pc = "thrown"
            /\ err = <<[prefix |-> "RuntimeError: ",
                        what |-> [msg |-> "Undefined variable", arg |-> assignment.name]]>>
            /\ envs = assignment.envs
            /\ \A k \in DOMAIN ChainOf(envs, environment_) :
                 assignment.name \notin DOMAIN envs[ChainOf(envs, environment_)[k]].values_

\* assign was called from the innermost of three nested scopes for a name
\* none of them binds, while they bind the other name; it has thrown
C23_Witness ==
  /\ pc = "thrown"
  /\ Len(ChainOf(envs, environment_)) = 3
  /\ Binding(assignment.name) = {}
  /\ \A s \in DOMAIN envs : DOMAIN envs[s].values_ # {}


(***************************************************************************)
(* Claims about the lexer called token by token.                           *)
(***************************************************************************)
\* the identifier at 0-based offset start of text is the word loop with '('
\* as the very next character
LoopThenParen(text, start) ==
  /\ start + 5 <= Len(text)
  /\ SubSeq(text, start + 1, start + 5) = <<"l", "o", "o", "p", "(">>

\* C24: whenever nextToken() returns LOOP for the word loop immediately
\* followed by '(', the very next call of nextToken() returns LPAREN,
\* whatever follows in the source
C24_LoopThenLParen ==
  \A k \in DOMAIN tokens :
    (/\ tokens[k].type = "LOOP"
     /\ LoopThenParen(file.text, tokens[k].start)
     /\ k < Len(tokens)) => tokens[k + 1].type = "LPAREN"


\* the FunctionDeclaration nodes of a statement, those nested in blocks,
\* loop bodies, if branches and function bodies included
RECURSIVE DeclarationsOf(_)
DeclarationsOf(node) ==
  CASE node.type = "BLOCK" ->
         UNION {DeclarationsOf(node.statements[k]) : k \in DOMAIN node.statements}
    [] node.type = "FUNCTION_DECLARATION" -> {node} \cup DeclarationsOf(node.body)
    [] node.type = "LOOP" -> DeclarationsOf(node.body)
    [] node.type = "IF" ->
         DeclarationsOf(node.thenBranch) \cup DeclarationsOf(node.elseBranch)
    [] OTHER -> {}

\* C25: every FunctionDeclaration of the tree parse() returns has a Block as
\* its body, that of a declaration func NAME(params); included, and executing
\* such a declaration does not dereference a missing body
C25_FunctionBodyIsBlock ==
  (file.kind = "text" /\ pc \notin {"start", "read"} /\ ~ParseThrew) =>
    /\ \A d \in DeclarationsOf(program) : d.body.type = "BLOCK"
    /\ file.text \in Forward => pc \notin {"undefined", "crashed"}


\* the number of characters c in text
Count(text, c) == Cardinality({k \in DOMAIN text : text[k] = c})

\* C26: an assignment evaluates each subexpression once, so a call in its
\* right side or in its index writes once; the value it stores and the value
\* it returns are the value of the right side, with the same type tag
C26_AssignEvaluatesOnce ==
  Interpreted =>
    /\ file.text \in Effects => Count(out, "t") = 1
    /\ file.text \in Stores =>
         Global("x") = Global("y") /\ Global("z") = Global("y")


\* C27: a break executed in the body of a called function, outside any loop
\* of that function, does not end a loop of the caller: the caller's loop
\* goes on to the statement after the call in each of its iterations, unless
\* the break is reported as an error
C27_BreakStaysInFunction ==
  (Interpreted /\ file.text \in Breaking) => (Count(out, "b") >= 2 \/ err # <<>>)


\* C28: the string form and the parenthesised form of print write the same
\* text for the same operands: what is written before the bar is what is
\* written after it
C28_PrintFormsAgree ==
  (Interpreted /\ file.text \in PrintForms) =>
    \E k \in DOMAIN out :
      /\ out[k] = "|"
      /\ SubSeq(out, 1, k - 1) = SubSeq(out, k + 1, Len(out))


\* C29: unary minus follows integer demotion: -n has the tag and the text
\* of 0 - n, and println(-5) writes -5
C29_UnaryMinusDemotes ==
  Interpreted =>
    /\ file.text \in Negations => Global("a") = Global("b")
    /\ file.text \in MinusFive => out = <<"-", "5", "\n">>


\* C30: a runtime error raised at any block nesting depth writes its
\* diagnostic "Runtime Error: <msg>" once, and no statement after the failing
\* one executes
C30_RuntimeErrorOnce ==
  (Interpreted /\ file.text \in Failing) =>
    /\ Cardinality(Diagnostics("Runtime Error: ")) = 1
    /\ out = <<>>

====
